---- MODULE Spec2Model ----
(***************************************************************************)
(* Proxy lifecycle engine of tsdproxy: the proxy manager (registry of live *)
(* proxies, fan-in of target events, one goroutine per event) and the      *)
(* per-target proxy.                                                       *)
(*                                                                         *)
(* Spec       the manager handling the events of one target provider      *)
(* SpecObs    the manager handling Restart(X), then, from the same state,  *)
(*            Stop(X) and Start(X): what a subscriber of the bus sees      *)
(* SpecLock   the manager's RWMutex and the accesses to the registry map   *)
(* SpecBus    the status bus: subscribers, their channels, publishers      *)
(* SpecResolve  getProxyProvider applied to every input of a bounded set   *)
(* SpecList   the list provider: file-system events, reload, diff          *)
(* SpecEntry  list entries with their target URLs, from AddTarget to Start *)
(* SpecWatch  a target provider's goroutines and the manager's event loop  *)
(* SpecStopAll  StopAllProxies beside the handler of one more event        *)
(* SpecEndpoint one proxy with the endpoint's watchStatus and setStatus    *)
(* SpecHeaders  one request through ProviderUserMiddleware and Rewrite     *)
(* SpecClose  one proxy with Proxy.Close taken statement by statement      *)
(* SpecProviders  the manager with several target providers and one id    *)
(* SpecDash   the dashboard's stream clients and streamProxyUpdates        *)
(* SpecProxy  one proxy after Proxy.Start: the start goroutine, the        *)
(*            endpoint-event forwarder, the port workers, callers of Close *)
(* SpecJoin   one proxy that nobody closes from outside, with a longer     *)
(*            sequence of join-state events of the endpoint                *)
(***************************************************************************)
EXTENDS Integers, Sequences, FiniteSets, TLC

(***************************************************************************)
(* Bounds.                                                                 *)
(***************************************************************************)
\* Number of target events the provider emits in one run.
MaxEvents == 3

\* Number of calls of Proxy.Close from outside the proxy (removeProxy).
MaxCloses == 2

\* Number of join-state events the endpoint emits.
MaxEndpointEvents == 1

\* Number of join-state events the endpoint emits when no caller closes the
\* proxy (SpecJoin).
MaxJoinEvents == 2

\* Number of container events the engine delivers (SpecWatch).
MaxDockerEvents == 2

\* Number of provider events handled beside StopAllProxies (SpecStopAll).
MaxShutdownEvents == 1

\* Number of backend notifications watchStatus reads (SpecEndpoint).
MaxNotifications == 3

\* Number of events of the target id the providers emit (SpecProviders).
MaxProviderEvents == 3

\* Status events streamProxyUpdates receives, and messages renderList sends
\* to one client (SpecDash).
MaxStatusEvents == 2
RenderMessages == 2

\* Number of target URLs of one port of a list entry (SpecEntry).
MaxTargets == 2

\* Number of file-system events on the list file's directory (SpecList).
MaxFsEvents == 2

\* Number of status events published on the bus (SpecBus).
MaxPublishes == 2

\* Number of port workers whose Serve ends with an error.
MaxPortErrors == 1

\* Number of goroutines that call into the manager at the same time.
MaxCallers == 3

\* Target ids of the provider and the hostnames their configs can carry.
Ids == {"a", "b"}
Hosts == {"h1", "h2"}

\* Port keys a proxy config can carry, and the hostname of the proxy of SpecProxy.
PortKeys == {1, 2}
ProxyHost == "h1"

(***************************************************************************)
(* model.ProxyStatus, as listed for the status event bus.                  *)
(***************************************************************************)
ProxyStatus ==
  {"Initializing", "Starting", "Authenticating", "Running",
   "Stopping", "Stopped", "Error"}

\* targetproviders.ActionType values used by HandleProxyEvent.
ActionStartProxy == "Start"
ActionStopProxy == "Stop"
ActionRestartProxy == "Restart"

VARIABLES
  cfgHost,      \* target id -> Hostname of the config AddTarget materializes
  cfgProvider,  \* target id -> ProxyProvider name of that config ("" = unset)
  present,      \* target ids the provider currently yields (configProxies)
  toStart,      \* ids whose startup Start event is still to be emitted
  book,         \* provider bookkeeping (list: c.proxies, docker: c.containers)
  tasks,        \* one HandleProxyEvent goroutine per emitted event, in emission order
  proxies,      \* every Proxy object constructed so far
  reg,          \* pm.Proxies: hostname -> index into proxies, 0 = no entry
  bus,          \* status events as seen by an always-ready subscriber
  pPorts,       \* SpecProxy: keys of Config.Ports (= keys of proxy.ports)
  pStatus,      \* proxy.status, the cached status
  statusLog,    \* the values proxy.status took, in order
  thr,          \* goroutines of the proxy: thread id -> [pc, arg, ret]
  pending,      \* start(): port keys the loop has still to visit
  epStarted,    \* providerProxy.Start returned nil
  epClosed,     \* providerProxy.Close was called
  epEvents,     \* number of events the endpoint has emitted
  ctxCancelled, \* proxy.cancel was called
  lst,          \* port key -> listener GetListener vended: none / open / closed
  portListener, \* port key -> port.listener is set
  httpShutdown, \* port key -> httpServer.Shutdown was called
  serving,      \* port key -> httpServer.Serve is in its accept loop
  portFailed,   \* port key -> Serve ended with an error
  closeCalls,   \* number of Close calls made so far
  closeActive,  \* number of Close calls that have not returned
  closeOverlap, \* some Close call began while another had not returned
  lockW,        \* SpecLock: goroutine holding pm.mtx in write mode, 0 if none
  lockR,        \* goroutines holding pm.mtx in read mode
  call,         \* goroutine -> [op, pc]: the manager function it runs
  acc,          \* goroutine -> its access to pm.Proxies in progress
  obsPhase,     \* SpecObs: setup, restart, rewound, stop, both
  obsX,         \* the target id restarted
  obsSaved,     \* the manager's state when Restart(X) was emitted
  obsBus,       \* the bus after Restart(X) was handled
  obsAdded,     \* AddTarget returned a config when Restart(X) was handled
  subs,         \* SpecBus: pm.statusSubscribers, the subscribed channels
  sink,         \* channel -> where its subscriber is: new .. closed
  sinkRecv,     \* channel -> its consumer is blocked in a receive on it
  sinkGot,      \* channel -> the events its consumer received
  pub,          \* publisher -> [pc, ev, todo, dropped] of broadcastStatusEvents
  published,    \* number of events published so far
  resIn,        \* SpecResolve: the inputs of one getProxyProvider call
  resOut,       \* its result: a provider name or an error ("pending" before)
  listFile,     \* SpecList: name -> entry in the list file (0: no entry)
  listBad,      \* the file's content does not load without error
  realPath,     \* the real file the watched path resolves to
  watchedReal,  \* watchEvents' realFile: the resolution it saw last
  fsEvent,      \* the fsnotify event to be handled, or NoEvent
  fsCount,      \* number of file-system events so far
  configProxies, \* c.configProxies: name -> last loaded entry (0: none)
  listOut,      \* name -> the events the last handleEvent emitted for it
  listReloads,  \* number of reloads onFileChange has made
  cfgTargets,   \* SpecEntry: list entry -> its ports: port key -> target URLs
  wKind,        \* SpecWatch: the target provider's variant, "docker" or "list"
  atStartup,    \* the targets present when WatchEvents is called
  dockerStream, \* the engine's event stream: up, error (pending), silent, closed
  dockerEvents, \* number of container events the engine has delivered
  proc,         \* watcher, starter, closer -> [pc, todo, out] of the goroutine
  mgrLoop,      \* the manager's loop on eventsChan/errChan: select or returned
  got,          \* the target events the manager's loop has received
  gotErrs,      \* number of errors the manager's loop has received
  panicked,     \* a goroutine sent on a closed channel
  active,       \* ids the provider holds as active (c.proxies, c.containers)
  atClose,      \* the ids active when Close was called
  stopAll,      \* StopAllProxies: where the call is, and the proxies it found
  ep,           \* the endpoint (tailscale Proxy): its fields and watchStatus
  req,          \* one inbound request on a reverse-proxy port
  closing,      \* per Close call: ports still to close, port in hand, steps done
  multi,        \* the manager with several target providers and one target id
  dash          \* the dashboard: stream clients, their goroutines, dash.mtx

mgrVars == <<cfgHost, cfgProvider, present, toStart, book, tasks, proxies, reg>>

proxyVars ==
  <<pPorts, pStatus, statusLog, thr, pending, epStarted, epClosed, epEvents,
    ctxCancelled, lst, portListener, httpShutdown, serving, portFailed,
    closeCalls, closeActive, closeOverlap>>

lockVars == <<lockW, lockR, call, acc>>

obsVars == <<obsPhase, obsX, obsSaved, obsBus, obsAdded>>

busVars == <<subs, sink, sinkRecv, sinkGot, pub, published>>

resVars == <<resIn, resOut>>

listVars == <<listFile, listBad, realPath, watchedReal, fsEvent, fsCount,
              configProxies, listOut, listReloads>>

watchVars == <<wKind, atStartup, dockerStream, dockerEvents, proc, mgrLoop, got,
               gotErrs, panicked, active, atClose>>

moreVars == <<stopAll, ep, req, closing, multi, dash>>

extVars == <<resVars, listVars, cfgTargets, watchVars, moreVars>>

vars == <<mgrVars, bus, proxyVars, lockVars, obsVars, busVars, extVars>>

\* Channels SubscribeStatusEvents can hand out, and goroutines that publish.
Sinks == {"s1", "s2"}
Publishers == {"p1", "p2"}

\* The bus-level variables when no subscriber and no publisher is modelled.
BusIdle ==
  /\ subs = {}
  /\ sink = [c \in Sinks |-> "new"]
  /\ sinkRecv = [c \in Sinks |-> FALSE]
  /\ sinkGot = [c \in Sinks |-> <<>>]
  /\ pub = [p \in Publishers |-> [pc |-> "idle", ev |-> 0, todo |-> {}, dropped |-> {}]]
  /\ published = 0

\* The resolution variables when no call of getProxyProvider is examined.
ResIdle ==
  /\ resIn = [name |-> "", targetKnown |-> TRUE, registered |-> {},
              targetDefault |-> "", globalDefault |-> ""]
  /\ resOut = "pending"

\* Names of entries of the list file, and the entries a name can have.
ListNames == {"a", "b", "c"}
Entries == 0..2

\* No event is waiting in the watcher's channel.
NoEvent == [cause |-> "none", name |-> "", op |-> ""]

\* The list-provider variables when no list file is modelled.
ListIdle ==
  /\ listFile = [n \in ListNames |-> 0]
  /\ listBad = FALSE
  /\ realPath = 1
  /\ watchedReal = 1
  /\ fsEvent = NoEvent
  /\ fsCount = 0
  /\ configProxies = [n \in ListNames |-> 0]
  /\ listOut = [n \in ListNames |-> <<>>]
  /\ listReloads = 0

\* A list entry without ports.
NoPorts == [k \in {} |-> <<>>]

\* What a goroutine sends next on eventsChan or errChan; NoMsg when nothing.
Msg(kind, id, action) == [kind |-> kind, id |-> id, action |-> action]
NoMsg == Msg("none", "", "")

\* The provider variables before WatchEvents, for the targets in ids.
WatchIdle(kind, ids) ==
  /\ wKind = kind
  /\ atStartup = ids
  /\ dockerStream = "up"
  /\ dockerEvents = 0
  /\ proc = [q \in {"watcher", "starter", "closer"} |-> [pc |-> "idle", todo |-> {}, out |-> NoMsg]]
  /\ mgrLoop = "select"
  /\ got = <<>>
  /\ gotErrs = 0
  /\ panicked = FALSE
  /\ active = {}
  /\ atClose = {}

\* The goroutines of one proxy: start(), the forwarder of Proxy.Start, the
\* callers of Close and one worker per port.
TStart == <<"start", 0>>
TFwd == <<"fwd", 0>>
Closers == {<<"close", i>> : i \in 1..MaxCloses}
Workers == {<<"port", k>> : k \in PortKeys}
Threads == {TStart, TFwd} \cup Closers \cup Workers

\* The endpoint NewProxy of the mesh provider returns: status, url and authURL
\* have their zero values, watchStatus has not read anything.
EndpointNew ==
  [pc |-> "next", status |-> "Initializing", url |-> <<>>, authURL |-> "",
   out |-> "", seen |-> <<>>, certs |-> 0]

\* No shutdown of the manager is in progress and the endpoint is new.
MoreIdle ==
  /\ stopAll = [pc |-> "idle", snap |-> {}]
  /\ ep = EndpointNew
  /\ req = [pc |-> "none"]
  /\ closing = [th \in Threads |-> [todo |-> {}, cur |-> 0, log |-> <<>>]]
  /\ multi = [phase |-> "none"]
  /\ dash = [pc |-> "none"]

ExtIdle ==
  /\ ResIdle
  /\ ListIdle
  /\ cfgTargets = [i \in Ids |-> NoPorts]
  /\ WatchIdle("list", {})
  /\ MoreIdle

\* The comparison variables when no comparison is made.
ObsIdle ==
  /\ obsPhase = "setup"
  /\ obsX = ""
  /\ obsSaved = <<>>
  /\ obsBus = <<>>
  /\ obsAdded = FALSE

(***************************************************************************)
(* Mesh (proxy) provider resolution.                                       *)
(***************************************************************************)
\* pm.ProxyProviders keys, the target provider's default and the global default.
RegisteredProxyProviders == {"default"}
TargetDefaultProxyProvider == "default"
GlobalDefaultProxyProvider == "default"
ErrProxyProviderNotFound == "ErrProxyProviderNotFound"

getProxyProvider(name, registered, targetDefault, globalDefault) ==
  IF name # ""
    THEN IF name \in registered THEN name ELSE ErrProxyProviderNotFound
    ELSE IF targetDefault \in registered THEN targetDefault
    ELSE IF globalDefault \in registered THEN globalDefault
    ELSE ErrProxyProviderNotFound

\* The resolution newAndStartProxy performs for the config of target id.
ResolveFor(id) ==
  getProxyProvider(cfgProvider[id], RegisteredProxyProviders,
                   TargetDefaultProxyProvider, GlobalDefaultProxyProvider)

(***************************************************************************)
(* Registry helpers.                                                       *)
(***************************************************************************)
\* addProxy with the store into the map left out.
addProxyDropped(r, host, p) == r

\* addProxy: pm.Proxies[proxy.Config.Hostname] = proxy
addProxy(r, host, p) == [r EXCEPT ![host] = p]

\* delete(pm.Proxies, hostname)
deleteProxy(r, host) == [r EXCEPT ![host] = 0]

\* getProxyByTargetID: the registered proxies whose Config.TargetID is id
\* (the scan returns the first one the map iteration meets).
getProxyByTargetID(id) ==
  {reg[h] : h \in {x \in Hosts : reg[x] # 0 /\ proxies[reg[x]].tid = id}}

\* Proxy.setStatus as far as the bus is concerned: nothing when unchanged.
Publish(b, host, old, new) ==
  IF old = new THEN b ELSE Append(b, [ID |-> host, Status |-> new])

(***************************************************************************)
(* The target provider: startup emissions and later changes of its view.   *)
(* WatchEvents receives each event and runs `go pm.HandleProxyEvent(event)`*)
(***************************************************************************)
NewTask(id, action, startup) ==
  [id |-> id, action |-> action,
   startup |-> startup, \* emitted for a target present when WatchEvents began
   pc |-> IF action = ActionStartProxy THEN "start" ELSE "stop",
   found |-> 0,        \* eventStop: the proxy getProxyByTargetID returned
   delCalled |-> FALSE, \* eventStop: DeleteProxy was called on the provider
   added |-> FALSE,    \* eventStart: AddTarget returned a config
   rp |-> 0,           \* removeProxy: the proxy read from pm.Proxies[hostname]
   np |-> 0]           \* newAndStartProxy: the proxy NewProxy returned

\* Emission of the startup Start for a target present at startup.
EmitStartup(id) ==
  /\ id \in toStart
  /\ Len(tasks) < MaxEvents
  /\ toStart' = toStart \ {id}
  /\ tasks' = Append(tasks, NewTask(id, ActionStartProxy, TRUE))
  /\ UNCHANGED <<cfgHost, cfgProvider, present, book, proxies, reg, bus>>

\* A new target appears (new list entry, container start): Start.
EmitStart(id) ==
  /\ id \notin present
  /\ Len(tasks) < MaxEvents
  /\ present' = present \cup {id}
  /\ tasks' = Append(tasks, NewTask(id, ActionStartProxy, FALSE))
  /\ UNCHANGED <<cfgHost, cfgProvider, toStart, book, proxies, reg, bus>>

\* A target disappears (entry removed, container die): Stop.
EmitStop(id) ==
  /\ id \in present \ toStart
  /\ Len(tasks) < MaxEvents
  /\ present' = present \ {id}
  /\ tasks' = Append(tasks, NewTask(id, ActionStopProxy, FALSE))
  /\ UNCHANGED <<cfgHost, cfgProvider, toStart, book, proxies, reg, bus>>

\* An entry of the list file changed: Restart.
EmitRestart(id) ==
  /\ id \in present \ toStart
  /\ Len(tasks) < MaxEvents
  /\ tasks' = Append(tasks, NewTask(id, ActionRestartProxy, FALSE))
  /\ UNCHANGED <<cfgHost, cfgProvider, present, toStart, book, proxies, reg, bus>>

(***************************************************************************)
(* HandleProxyEvent, one goroutine per event: Start runs eventStart, Stop   *)
(* runs eventStop, Restart runs eventStop and then eventStart.             *)
(***************************************************************************)
SetPc(t, pc) == [tasks EXCEPT ![t].pc = pc]

\* Where eventStop returns to: Restart goes on with eventStart.
AfterStop(t) == IF tasks[t].action = ActionRestartProxy THEN "start" ELSE "done"

\* eventStop, first half: getProxyByTargetID, then DeleteProxy on the provider.
StopLookup(t) ==
  /\ tasks[t].pc = "stop"
  /\ LET id == tasks[t].id
         found == getProxyByTargetID(id)
     IN \/ /\ found = {}
           /\ tasks' = SetPc(t, AfterStop(t))
           /\ UNCHANGED book
        \/ \E p \in found :
             IF id \in book
               THEN /\ book' = book \ {id}
                    /\ tasks' = [tasks EXCEPT ![t].pc = "remove", ![t].found = p,
                                              ![t].delCalled = TRUE]
               ELSE /\ tasks' = [tasks EXCEPT ![t].pc = AfterStop(t), ![t].found = p,
                                              ![t].delCalled = TRUE]
                    /\ UNCHANGED book
  /\ UNCHANGED <<cfgHost, cfgProvider, present, toStart, proxies, reg, bus>>

\* removeProxy: the lookup by hostname, then Proxy.Close up to the closed endpoint.
RemoveLookup(t) ==
  /\ tasks[t].pc = "remove"
  /\ LET host == proxies[tasks[t].found].host
         p == reg[host]
     IN IF p = 0
          THEN /\ tasks' = SetPc(t, AfterStop(t))
               /\ UNCHANGED <<proxies, bus>>
          ELSE /\ tasks' = [tasks EXCEPT ![t].pc = "closing", ![t].rp = p]
               /\ proxies' = [proxies EXCEPT ![p].status = "Stopping", ![p].closed = TRUE]
               /\ bus' = Publish(bus, host, proxies[p].status, "Stopping")
  /\ UNCHANGED <<cfgHost, cfgProvider, present, toStart, book, reg>>

\* Proxy.Close, last statement: setStatus(Stopped).
CloseDone(t) ==
  /\ tasks[t].pc = "closing"
  /\ LET p == tasks[t].rp
     IN /\ proxies' = [proxies EXCEPT ![p].status = "Stopped"]
        /\ bus' = Publish(bus, proxies[p].host, proxies[p].status, "Stopped")
  /\ tasks' = SetPc(t, "delete")
  /\ UNCHANGED <<cfgHost, cfgProvider, present, toStart, book, reg>>

\* removeProxy: delete(pm.Proxies, hostname) under the write lock.
RemoveDelete(t) ==
  /\ tasks[t].pc = "delete"
  /\ reg' = deleteProxy(reg, proxies[tasks[t].found].host)
  /\ tasks' = SetPc(t, AfterStop(t))
  /\ UNCHANGED <<cfgHost, cfgProvider, present, toStart, book, proxies, bus>>

\* eventStart: AddTarget on the provider. It fails for an id the provider does
\* not have, and it can fail for one it has (the container cannot be inspected,
\* its labels do not yield a config); the event is then dropped.
StartAddTarget(t) ==
  /\ tasks[t].pc = "start"
  /\ \/ /\ tasks[t].id \in present
        /\ book' = book \cup {tasks[t].id}
        /\ tasks' = [tasks EXCEPT ![t].pc = "new", ![t].added = TRUE]
     \/ /\ tasks' = SetPc(t, "done")
        /\ UNCHANGED book
  /\ UNCHANGED <<cfgHost, cfgProvider, present, toStart, proxies, reg, bus>>

\* newAndStartProxy: getProxyProvider, NewProxy, addProxy.
StartRegister(t) ==
  /\ tasks[t].pc = "new"
  /\ LET id == tasks[t].id
     IN IF ResolveFor(id) = ErrProxyProviderNotFound
          THEN /\ tasks' = SetPc(t, "done")
               /\ UNCHANGED <<proxies, reg>>
          ELSE /\ proxies' = Append(proxies,
                    [tid |-> id, host |-> cfgHost[id], status |-> "Initializing",
                     started |-> FALSE, closed |-> FALSE])
               /\ reg' = addProxy(reg, cfgHost[id], Len(proxies) + 1)
               /\ tasks' = [tasks EXCEPT ![t].pc = "init", ![t].np = Len(proxies) + 1]
  /\ UNCHANGED <<cfgHost, cfgProvider, present, toStart, book, bus>>

\* newAndStartProxy: broadcast Initializing, then p.Start().
StartBroadcast(t) ==
  /\ tasks[t].pc = "init"
  /\ LET p == tasks[t].np
     IN /\ bus' = Append(bus, [ID |-> proxies[p].host, Status |-> "Initializing"])
        /\ proxies' = [proxies EXCEPT ![p].started = TRUE]
  /\ tasks' = SetPc(t, "done")
  /\ UNCHANGED <<cfgHost, cfgProvider, present, toStart, book, reg>>

(***************************************************************************)
(* Goroutines of one proxy.                                                *)
(***************************************************************************)
\* Statuses the endpoint's watchStatus sends on its events channel.
EndpointStatuses == {"Starting", "Authenticating", "Running"}

At(pc) == [pc |-> pc, arg |-> "", ret |-> ""]

\* A goroutine about to run setStatus(status) and then go on at ret.
Calling(status, ret) == [pc |-> "set", arg |-> status, ret |-> ret]

\* The proxy-level variables when no proxy is modelled.
ProxyIdle ==
  /\ pPorts = {}
  /\ pStatus = "Initializing"
  /\ statusLog = <<>>
  /\ thr = [th \in Threads |-> At("done")]
  /\ pending = {}
  /\ epStarted = FALSE
  /\ epClosed = FALSE
  /\ epEvents = 0
  /\ ctxCancelled = FALSE
  /\ lst = [k \in PortKeys |-> "none"]
  /\ portListener = [k \in PortKeys |-> FALSE]
  /\ httpShutdown = [k \in PortKeys |-> FALSE]
  /\ serving = [k \in PortKeys |-> FALSE]
  /\ portFailed = [k \in PortKeys |-> FALSE]
  /\ closeCalls = 0
  /\ closeActive = 0
  /\ closeOverlap = FALSE

(***************************************************************************)
(* The manager's lock: which functions touch pm.Proxies, and under what.   *)
(***************************************************************************)
Callers == 1..MaxCallers

\* The lock operations and map accesses of each function, in program order.
\* "read" and "write" are accesses to pm.Proxies; each takes time (begin, end).
ProgAddProxy == <<"Lock", "write", "Unlock">>
ProgRemoveProxy == <<"read", "Close", "Lock", "write", "Unlock">>
ProgGetProxyByTargetID == <<"RLock", "read", "RUnlock">>
ProgGetProxy == <<"RLock", "read", "RUnlock">>
ProgStopAllProxies == <<"RLock", "read", "RUnlock">>
ProgRenderList == <<"RLock", "RUnlock", "read">>

Program(op) ==
  CASE op = "addProxy" -> ProgAddProxy
    [] op = "removeProxy" -> ProgRemoveProxy
    [] op = "getProxyByTargetID" -> ProgGetProxyByTargetID
    [] op = "GetProxy" -> ProgGetProxy
    [] op = "StopAllProxies" -> ProgStopAllProxies
    [] op = "renderList" -> ProgRenderList
    [] OTHER -> <<>>

Ops == {"addProxy", "removeProxy", "getProxyByTargetID", "GetProxy",
        "StopAllProxies", "renderList"}

\* The lock-level variables when no caller is modelled.
LockIdle ==
  /\ lockW = 0
  /\ lockR = {}
  /\ call = [c \in Callers |-> [op |-> "", pc |-> 1]]
  /\ acc = [c \in Callers |-> "none"]

Instr(c) ==
  IF call[c].pc <= Len(Program(call[c].op)) THEN Program(call[c].op)[call[c].pc]
  ELSE "return"

Advance(c) == call' = [call EXCEPT ![c].pc = call[c].pc + 1]

\* pm.mtx.Lock(): no other holder.
MtxLock(c) ==
  /\ Instr(c) = "Lock"
  /\ lockW = 0 /\ lockR = {}
  /\ lockW' = c
  /\ Advance(c)
  /\ UNCHANGED <<lockR, acc>>

MtxUnlock(c) ==
  /\ Instr(c) = "Unlock"
  /\ lockW' = 0
  /\ Advance(c)
  /\ UNCHANGED <<lockR, acc>>

\* pm.mtx.RLock(): no writer.
MtxRLock(c) ==
  /\ Instr(c) = "RLock"
  /\ lockW = 0
  /\ lockR' = lockR \cup {c}
  /\ Advance(c)
  /\ UNCHANGED <<lockW, acc>>

MtxRUnlock(c) ==
  /\ Instr(c) = "RUnlock"
  /\ lockR' = lockR \ {c}
  /\ Advance(c)
  /\ UNCHANGED <<lockW, acc>>

\* A lookup, a range or a store/delete on pm.Proxies begins.
AccessBegin(c) ==
  /\ Instr(c) \in {"read", "write"}
  /\ acc[c] = "none"
  /\ acc' = [acc EXCEPT ![c] = Instr(c)]
  /\ UNCHANGED <<lockW, lockR, call>>

AccessEnd(c) ==
  /\ Instr(c) \in {"read", "write"}
  /\ acc[c] # "none"
  /\ acc' = [acc EXCEPT ![c] = "none"]
  /\ Advance(c)
  /\ UNCHANGED <<lockW, lockR>>

\* removeProxy: proxy.Close() runs between the lookup and the locked delete.
CallClose(c) ==
  /\ Instr(c) = "Close"
  /\ Advance(c)
  /\ UNCHANGED <<lockW, lockR, acc>>

InitLock ==
  /\ cfgHost = [i \in Ids |-> ProxyHost]
  /\ cfgProvider = [i \in Ids |-> ""]
  /\ present = {}
  /\ toStart = {}
  /\ book = {}
  /\ tasks = <<>>
  /\ proxies = <<>>
  /\ reg = [h \in Hosts |-> 0]
  /\ bus = <<>>
  /\ ProxyIdle
  /\ lockW = 0
  /\ lockR = {}
  /\ call \in [Callers -> [op : Ops, pc : {1}]]
  /\ acc = [c \in Callers |-> "none"]
  /\ ObsIdle
  /\ BusIdle
  /\ ExtIdle

NextLock ==
  \/ \E c \in Callers : MtxLock(c) /\ UNCHANGED <<mgrVars, bus, proxyVars, obsVars, busVars, extVars>>
  \/ \E c \in Callers : MtxUnlock(c) /\ UNCHANGED <<mgrVars, bus, proxyVars, obsVars, busVars, extVars>>
  \/ \E c \in Callers : MtxRLock(c) /\ UNCHANGED <<mgrVars, bus, proxyVars, obsVars, busVars, extVars>>
  \/ \E c \in Callers : MtxRUnlock(c) /\ UNCHANGED <<mgrVars, bus, proxyVars, obsVars, busVars, extVars>>
  \/ \E c \in Callers : AccessBegin(c) /\ UNCHANGED <<mgrVars, bus, proxyVars, obsVars, busVars, extVars>>
  \/ \E c \in Callers : AccessEnd(c) /\ UNCHANGED <<mgrVars, bus, proxyVars, obsVars, busVars, extVars>>
  \/ \E c \in Callers : CallClose(c) /\ UNCHANGED <<mgrVars, bus, proxyVars, obsVars, busVars, extVars>>

SpecLock == InitLock /\ [][NextLock]_vars

(***************************************************************************)
(* The status bus: SubscribeStatusEvents, UnsubscribeStatusEvents,         *)
(* broadcastStatusEvents.                                                  *)
(***************************************************************************)
\* select { case ch <- event: default: } on an unbuffered channel: the event
\* is handed over when a receiver is waiting, else the default case runs.
selectSendBlocking(receiverWaiting) ==
  IF receiverWaiting THEN "sent" ELSE "blocked"

selectSend(receiverWaiting) ==
  IF receiverWaiting THEN "sent" ELSE "dropped"

\* The mutex's holder number of the goroutine that works on channel c.
Holder(c) == IF c = "s1" THEN 1 ELSE 2

\* SubscribeStatusEvents: make(chan), Lock, insert into the map ...
SubscribeLock(c) ==
  /\ sink[c] = "new"
  /\ lockW = 0 /\ lockR = {}
  /\ lockW' = Holder(c)
  /\ subs' = subs \cup {c}
  /\ sink' = [sink EXCEPT ![c] = "subscribing"]
  /\ UNCHANGED <<lockR, call, acc, sinkRecv, sinkGot, pub, published>>

\* ... Unlock, return the channel.
SubscribeUnlock(c) ==
  /\ sink[c] = "subscribing"
  /\ lockW' = 0
  /\ sink' = [sink EXCEPT ![c] = "on"]
  /\ UNCHANGED <<lockR, call, acc, subs, sinkRecv, sinkGot, pub, published>>

\* The consumer (for event := range ch) waits for the next event.
ConsumerReceive(c) ==
  /\ sink[c] \in {"on", "unsubscribing", "removed"}
  /\ ~sinkRecv[c]
  /\ sinkRecv' = [sinkRecv EXCEPT ![c] = TRUE]
  /\ UNCHANGED <<lockVars, subs, sink, sinkGot, pub, published>>

\* UnsubscribeStatusEvents deleting the channel without waiting for the
\* broadcasts that hold the read lock.
UnsubscribeLockNoWait(c) ==
  /\ sink[c] = "on"
  /\ lockW = 0
  /\ lockW' = Holder(c)
  /\ subs' = subs \ {c}
  /\ sink' = [sink EXCEPT ![c] = "unsubscribing"]
  /\ UNCHANGED <<lockR, call, acc, sinkRecv, sinkGot, pub, published>>

\* UnsubscribeStatusEvents: Lock, delete from the map ...
UnsubscribeLock(c) ==
  /\ sink[c] = "on"
  /\ lockW = 0 /\ lockR = {}
  /\ lockW' = Holder(c)
  /\ subs' = subs \ {c}
  /\ sink' = [sink EXCEPT ![c] = "unsubscribing"]
  /\ UNCHANGED <<lockR, call, acc, sinkRecv, sinkGot, pub, published>>

\* ... Unlock ...
UnsubscribeUnlock(c) ==
  /\ sink[c] = "unsubscribing"
  /\ lockW' = 0
  /\ sink' = [sink EXCEPT ![c] = "removed"]
  /\ UNCHANGED <<lockR, call, acc, subs, sinkRecv, sinkGot, pub, published>>

\* ... close(ch): a consumer waiting in the receive leaves its loop.
UnsubscribeClose(c) ==
  /\ sink[c] = "removed"
  /\ sink' = [sink EXCEPT ![c] = "closed"]
  /\ sinkRecv' = [sinkRecv EXCEPT ![c] = FALSE]
  /\ UNCHANGED <<lockVars, subs, sinkGot, pub, published>>

\* broadcastStatusEvents: RLock, begin to range over the subscribers.
BroadcastBegin(p) ==
  /\ pub[p].pc = "idle"
  /\ published < MaxPublishes
  /\ lockW = 0
  /\ lockR' = lockR \cup {p}
  /\ published' = published + 1
  /\ pub' = [pub EXCEPT ![p] = [pc |-> "loop", ev |-> published + 1,
                                todo |-> subs, dropped |-> {}]]
  /\ UNCHANGED <<lockW, call, acc, subs, sink, sinkRecv, sinkGot>>

\* One round of the loop: the select on channel c.
BroadcastSend(p, c) ==
  /\ pub[p].pc = "loop"
  /\ c \in pub[p].todo
  /\ selectSend(sinkRecv[c]) # "blocked"
  /\ IF selectSend(sinkRecv[c]) = "sent"
       THEN /\ sinkGot' = [sinkGot EXCEPT ![c] = Append(sinkGot[c], pub[p].ev)]
            /\ sinkRecv' = [sinkRecv EXCEPT ![c] = FALSE]
            /\ pub' = [pub EXCEPT ![p].todo = pub[p].todo \ {c}]
       ELSE /\ pub' = [pub EXCEPT ![p].todo = pub[p].todo \ {c},
                                  ![p].dropped = pub[p].dropped \cup {c}]
            /\ UNCHANGED <<sinkGot, sinkRecv>>
  /\ UNCHANGED <<lockVars, subs, sink, published>>

\* The loop is over: RUnlock, return to the publishing proxy.
BroadcastEnd(p) ==
  /\ pub[p].pc = "loop"
  /\ pub[p].todo = {}
  /\ lockR' = lockR \ {p}
  /\ pub' = [pub EXCEPT ![p].pc = "idle"]
  /\ UNCHANGED <<lockW, call, acc, subs, sink, sinkRecv, sinkGot, published>>

\* A manager with no target, no task and no proxy.
MgrIdle ==
  /\ cfgHost = [i \in Ids |-> ProxyHost]
  /\ cfgProvider = [i \in Ids |-> ""]
  /\ present = {}
  /\ toStart = {}
  /\ book = {}
  /\ tasks = <<>>
  /\ proxies = <<>>
  /\ reg = [h \in Hosts |-> 0]
  /\ bus = <<>>

InitBus ==
  /\ MgrIdle
  /\ ProxyIdle
  /\ LockIdle
  /\ ObsIdle
  /\ BusIdle
  /\ ExtIdle

NextBus ==
  \/ \E c \in Sinks : SubscribeLock(c) /\ UNCHANGED <<mgrVars, bus, proxyVars, obsVars, extVars>>
  \/ \E c \in Sinks : SubscribeUnlock(c) /\ UNCHANGED <<mgrVars, bus, proxyVars, obsVars, extVars>>
  \/ \E c \in Sinks : ConsumerReceive(c) /\ UNCHANGED <<mgrVars, bus, proxyVars, obsVars, extVars>>
  \/ \E c \in Sinks : UnsubscribeLock(c) /\ UNCHANGED <<mgrVars, bus, proxyVars, obsVars, extVars>>
  \/ \E c \in Sinks : UnsubscribeUnlock(c) /\ UNCHANGED <<mgrVars, bus, proxyVars, obsVars, extVars>>
  \/ \E c \in Sinks : UnsubscribeClose(c) /\ UNCHANGED <<mgrVars, bus, proxyVars, obsVars, extVars>>
  \/ \E p \in Publishers : BroadcastBegin(p) /\ UNCHANGED <<mgrVars, bus, proxyVars, obsVars, extVars>>
  \/ \E p \in Publishers, c \in Sinks : BroadcastSend(p, c) /\ UNCHANGED <<mgrVars, bus, proxyVars, obsVars, extVars>>
  \/ \E p \in Publishers : BroadcastEnd(p) /\ UNCHANGED <<mgrVars, bus, proxyVars, obsVars, extVars>>

SpecBus == InitBus /\ [][NextBus]_vars

(***************************************************************************)
(* getProxyProvider as a function of its inputs.                           *)
(***************************************************************************)
\* Names a config, a target provider or the global configuration can give.
ProviderNames == {"default", "alt"}

ErrTargetProviderNotFound == "ErrTargetProviderNotFound"

\* getProxyProvider with the lookup of the config's target provider, which
\* is made only when the config names no proxy provider.
getProxyProviderOf(in) ==
  IF in.name = "" /\ ~in.targetKnown
    THEN ErrTargetProviderNotFound
    ELSE getProxyProvider(in.name, in.registered, in.targetDefault, in.globalDefault)

Resolve ==
  /\ resOut = "pending"
  /\ resOut' = getProxyProviderOf(resIn)
  /\ UNCHANGED resIn

InitResolve ==
  /\ MgrIdle
  /\ ProxyIdle
  /\ LockIdle
  /\ ObsIdle
  /\ BusIdle
  /\ ListIdle
  /\ cfgTargets = [i \in Ids |-> NoPorts]
  /\ WatchIdle("list", {})
  /\ MoreIdle
  /\ resIn \in [name : ProviderNames \cup {""},
                targetKnown : BOOLEAN,
                registered : SUBSET ProviderNames,
                targetDefault : ProviderNames \cup {""},
                globalDefault : ProviderNames \cup {""}]
  /\ resOut = "pending"

NextResolve ==
  \/ Resolve /\ UNCHANGED <<mgrVars, bus, proxyVars, lockVars, obsVars, busVars, listVars, cfgTargets, watchVars, moreVars>>

SpecResolve == InitResolve /\ [][NextResolve]_vars

(***************************************************************************)
(* The list target provider: ConfigFile.Watch and Client.onFileChange.     *)
(***************************************************************************)
\* c.file.Load() after the map was emptied: the file's entries, or, when the
\* content does not decode without error, the entries in keep (those decoded
\* before the error was returned).
Load(content, bad, keep) ==
  IF bad THEN [n \in ListNames |-> IF n \in keep THEN content[n] ELSE 0]
         ELSE content

\* onFileChange's loops with a Restart for every name in both maps.
diffEventsNoCompare(old, new) ==
  [n \in ListNames |->
     IF old[n] # 0 /\ new[n] = 0 THEN <<ActionStopProxy>>
     ELSE IF new[n] # 0 /\ old[n] = 0 THEN <<ActionStartProxy>>
     ELSE IF new[n] # 0 THEN <<ActionRestartProxy>>
     ELSE <<>>]

\* onFileChange's two loops: the events sent for each name, given the cloned
\* old map and the reloaded map; reflect.DeepEqual is equality of entries.
diffEvents(old, new) ==
  [n \in ListNames |->
     IF old[n] # 0 /\ new[n] = 0 THEN <<ActionStopProxy>>
     ELSE IF new[n] # 0 /\ old[n] = 0 THEN <<ActionStartProxy>>
     ELSE IF new[n] # 0 /\ new[n] # old[n] THEN <<ActionRestartProxy>>
     ELSE <<>>]

\* Client.onFileChange(e): nothing unless e has the Write op; else clone, empty
\* and reload the map, then send the events of the diff.
onFileChange(e) ==
  IF e.op # "Write"
    THEN /\ listOut' = [n \in ListNames |-> <<>>]
         /\ UNCHANGED <<configProxies, listReloads>>
    ELSE \E keep \in SUBSET ListNames :
           /\ configProxies' = Load(listFile, listBad, keep)
           /\ listOut' = diffEvents(configProxies, configProxies')
           /\ listReloads' = listReloads + 1

\* The next event of the watcher, made by cause on path name with operation op.
FsEvent(cause, name, op) == [cause |-> cause, name |-> name, op |-> op]

\* The file is written in place: new content, a Write event on its name.
FsWrite(content, bad) ==
  /\ fsEvent = NoEvent /\ fsCount < MaxFsEvents
  /\ listFile' = content /\ listBad' = bad
  /\ fsEvent' = FsEvent("write", "file", "Write")
  /\ fsCount' = fsCount + 1
  /\ UNCHANGED <<realPath, watchedReal, configProxies, listOut, listReloads>>

\* The file is created anew under its name (removed and written again, or
\* another file moved over it): a Create event on its name.
FsCreate(content, bad) ==
  /\ fsEvent = NoEvent /\ fsCount < MaxFsEvents
  /\ listFile' = content /\ listBad' = bad
  /\ fsEvent' = FsEvent("create", "file", "Create")
  /\ fsCount' = fsCount + 1
  /\ UNCHANGED <<realPath, watchedReal, configProxies, listOut, listReloads>>

\* The symlink the file is reached through is pointed at another file: the
\* event is a Create or Rename of the link or of another name of the directory.
FsRetarget(content, bad, name, op) ==
  /\ fsEvent = NoEvent /\ fsCount < MaxFsEvents
  /\ listFile' = content /\ listBad' = bad
  /\ realPath' = 3 - realPath
  /\ fsEvent' = FsEvent("retarget", name, op)
  /\ fsCount' = fsCount + 1
  /\ UNCHANGED <<watchedReal, configProxies, listOut, listReloads>>

\* Something else happens in the directory: a Chmod of the file, or an event on
\* another name.
FsOther(name, op) ==
  /\ fsEvent = NoEvent /\ fsCount < MaxFsEvents
  /\ name = "file" => op = "Chmod"
  /\ fsEvent' = FsEvent("other", name, op)
  /\ fsCount' = fsCount + 1
  /\ UNCHANGED <<listFile, listBad, realPath, watchedReal, configProxies, listOut, listReloads>>

\* ConfigFile.handleEvent with the callback it runs: the symlink is resolved
\* again; onChange is called for a Write or Create of the file and whenever the
\* resolution differs from the last one seen.
handleEvent ==
  /\ fsEvent # NoEvent
  /\ IF \/ fsEvent.name = "file" /\ fsEvent.op \in {"Write", "Create"}
        \/ realPath # watchedReal
       THEN /\ watchedReal' = realPath
            /\ onFileChange(fsEvent)
       ELSE /\ listOut' = [n \in ListNames |-> <<>>]
            /\ UNCHANGED <<watchedReal, configProxies, listReloads>>
  /\ fsEvent' = NoEvent
  /\ UNCHANGED <<listFile, listBad, realPath, fsCount>>

\* list.New has loaded the file; Watch and OnChange are set up.
InitList ==
  /\ MgrIdle
  /\ ProxyIdle
  /\ LockIdle
  /\ ObsIdle
  /\ BusIdle
  /\ ResIdle
  /\ cfgTargets = [i \in Ids |-> NoPorts]
  /\ WatchIdle("list", {})
  /\ MoreIdle
  /\ listFile \in [ListNames -> Entries]
  /\ listBad = FALSE
  /\ realPath = 1
  /\ watchedReal = 1
  /\ fsEvent = NoEvent
  /\ fsCount = 0
  /\ configProxies = listFile
  /\ listOut = [n \in ListNames |-> <<>>]
  /\ listReloads = 0

NextList ==
  \/ \E c \in [ListNames -> Entries], b \in BOOLEAN : FsWrite(c, b) /\ UNCHANGED <<mgrVars, bus, proxyVars, lockVars, obsVars, busVars, resVars, cfgTargets, watchVars, moreVars>>
  \/ \E c \in [ListNames -> Entries], b \in BOOLEAN : FsCreate(c, b) /\ UNCHANGED <<mgrVars, bus, proxyVars, lockVars, obsVars, busVars, resVars, cfgTargets, watchVars, moreVars>>
  \/ \E c \in [ListNames -> Entries], b \in BOOLEAN, n \in {"file", "other"}, o \in {"Create", "Rename"} : FsRetarget(c, b, n, o) /\ UNCHANGED <<mgrVars, bus, proxyVars, lockVars, obsVars, busVars, resVars, cfgTargets, watchVars, moreVars>>
  \/ \E n \in {"file", "other"}, o \in {"Chmod", "Write", "Create"} : FsOther(n, o) /\ UNCHANGED <<mgrVars, bus, proxyVars, lockVars, obsVars, busVars, resVars, cfgTargets, watchVars, moreVars>>
  \/ handleEvent /\ UNCHANGED <<mgrVars, bus, proxyVars, lockVars, obsVars, busVars, resVars, cfgTargets, watchVars, moreVars>>

SpecList == InitList /\ [][NextList]_vars

(***************************************************************************)
(* List entries and their ports: Client.AddTarget, newProxyConfig, getPorts *)
(***************************************************************************)
\* Target URLs as url.Parse sees them: it fails, or yields a scheme and a host.
TargetURLs ==
  { [err |-> FALSE, scheme |-> "http", host |-> "srv:80"],
    [err |-> FALSE, scheme |-> "", host |-> "srv:80"],
    [err |-> FALSE, scheme |-> "srv", host |-> ""],
    [err |-> TRUE, scheme |-> "", host |-> ""] }

\* getPorts: the port keys kept for the config, those with at least one target
\* that parses and has a scheme and a host.
getPorts(l) ==
  {k \in DOMAIN l :
     \E i \in 1..Len(l[k]) :
       ~l[k][i].err /\ l[k][i].scheme # "" /\ l[k][i].host # ""}

\* eventStart for a list target: Client.AddTarget finds the entry and returns
\* newProxyConfig's config, whose Ports are getPorts of the entry's ports;
\* it fails only for a name that has no entry.
ListAddTarget(t) ==
  /\ tasks[t].pc = "start"
  /\ IF tasks[t].id \in present
       THEN /\ book' = book \cup {tasks[t].id}
            /\ tasks' = [tasks EXCEPT ![t].pc = "new", ![t].added = TRUE]
       ELSE /\ tasks' = SetPc(t, "done")
            /\ UNCHANGED book
  /\ UNCHANGED <<cfgHost, cfgProvider, present, toStart, proxies, reg, bus>>

\* The list file is loaded with two entries; WatchEvents is about to emit the
\* startup Start events.
InitEntry ==
  /\ cfgHost = [i \in Ids |-> IF i = "a" THEN "h1" ELSE "h2"]
  /\ cfgProvider = [i \in Ids |-> ""]
  /\ present = Ids
  /\ toStart = present
  /\ book = {}
  /\ tasks = <<>>
  /\ proxies = <<>>
  /\ reg = [h \in Hosts |-> 0]
  /\ bus = <<>>
  /\ cfgTargets \in [Ids -> UNION {[K -> UNION {[1..n -> TargetURLs] : n \in 0..MaxTargets}] :
                                    K \in SUBSET {1}}]
  /\ ProxyIdle
  /\ LockIdle
  /\ ObsIdle
  /\ BusIdle
  /\ ResIdle
  /\ ListIdle
  /\ WatchIdle("list", {})
  /\ MoreIdle

NextEntry ==
  \/ \E id \in Ids : EmitStartup(id) /\ UNCHANGED <<proxyVars, lockVars, obsVars, busVars, extVars>>
  \/ \E t \in 1..Len(tasks) : ListAddTarget(t) /\ UNCHANGED <<proxyVars, lockVars, obsVars, busVars, extVars>>
  \/ \E t \in 1..Len(tasks) : StartRegister(t) /\ UNCHANGED <<proxyVars, lockVars, obsVars, busVars, extVars>>
  \/ \E t \in 1..Len(tasks) : StartBroadcast(t) /\ UNCHANGED <<proxyVars, lockVars, obsVars, busVars, extVars>>

SpecEntry == InitEntry /\ [][NextEntry]_vars

(***************************************************************************)
(* A target provider's WatchEvents and Close, and ProxyManager.WatchEvents' *)
(* loop that receives what the provider's goroutines send.                 *)
(***************************************************************************)
\* provider.WatchEvents returns after launching its goroutines: the docker
\* variant its select loop and startAllProxies, the list variant the goroutine
\* that ranges over c.configProxies.
WatchEventsCall ==
  /\ ~panicked
  /\ proc["starter"].pc = "idle"
  /\ proc' = [proc EXCEPT
       !["starter"] = IF wKind = "docker"
                        THEN [pc |-> "list", todo |-> {}, out |-> NoMsg]
                        ELSE [pc |-> "emit", todo |-> atStartup, out |-> NoMsg],
       !["watcher"] = [pc |-> IF wKind = "docker" THEN "select" ELSE "idle",
                       todo |-> {}, out |-> NoMsg]]
  /\ UNCHANGED <<wKind, atStartup, dockerStream, dockerEvents, mgrLoop, got, gotErrs,
                 panicked, active, atClose>>

\* startAllProxies: ContainerList, which returns the running containers or an
\* error that is sent on errChan.
ContainerList ==
  /\ ~panicked
  /\ proc["starter"].pc = "list"
  /\ \/ proc' = [proc EXCEPT !["starter"] = [pc |-> "emit", todo |-> atStartup, out |-> NoMsg]]
     \/ proc' = [proc EXCEPT !["starter"] = [pc |-> "done", todo |-> {},
                                             out |-> Msg("err", "", "")]]
  /\ UNCHANGED <<wKind, atStartup, dockerStream, dockerEvents, mgrLoop, got, gotErrs,
                 panicked, active, atClose>>

\* The startup loop takes the next target and is about to send its Start.
StartupNext(id) ==
  /\ ~panicked
  /\ proc["starter"].pc = "emit" /\ proc["starter"].out = NoMsg
  /\ id \in proc["starter"].todo
  /\ proc' = [proc EXCEPT !["starter"].todo = @ \ {id},
                          !["starter"].out = Msg("event", id, ActionStartProxy)]
  /\ UNCHANGED <<wKind, atStartup, dockerStream, dockerEvents, mgrLoop, got, gotErrs,
                 panicked, active, atClose>>

\* The list file is written while the startup goroutine ranges over
\* c.configProxies: onFileChange empties and refills the map without a lock,
\* and keys not yet reached by the range may be skipped. (The file has the
\* same entries as before, so the reload emits nothing.)
StartupRace(skipped) ==
  /\ ~panicked
  /\ wKind = "list"
  /\ proc["starter"].pc = "emit"
  /\ skipped # {} /\ skipped \subseteq proc["starter"].todo
  /\ proc' = [proc EXCEPT !["starter"].todo = @ \ skipped]
  /\ UNCHANGED <<wKind, atStartup, dockerStream, dockerEvents, mgrLoop, got, gotErrs,
                 panicked, active, atClose>>

\* The docker watcher's select takes a container event (start or die) and is
\* about to send the Start or Stop on eventsChan.
WatcherEvent(id, action) ==
  /\ ~panicked
  /\ proc["watcher"].pc = "select" /\ proc["watcher"].out = NoMsg
  /\ dockerStream = "up" /\ dockerEvents < MaxDockerEvents
  /\ dockerEvents' = dockerEvents + 1
  /\ proc' = [proc EXCEPT !["watcher"].out = Msg("event", id, action)]
  /\ UNCHANGED <<wKind, atStartup, dockerStream, mgrLoop, got, gotErrs,
                 panicked, active, atClose>>

\* The engine's event stream fails: its error is ready on dockererrChan.
StreamError ==
  /\ ~panicked
  /\ wKind = "docker" /\ dockerStream = "up"
  /\ proc["watcher"].pc = "select"
  /\ dockerStream' = "error"
  /\ UNCHANGED <<wKind, atStartup, dockerEvents, proc, mgrLoop, got, gotErrs,
                 panicked, active, atClose>>

\* The docker watcher's select takes from dockererrChan and is about to send
\* on errChan; it stays in its loop. After its error the engine's client either
\* leaves dockererrChan silent or closes it; from a closed channel the select
\* takes a nil error again and again.
WatcherError ==
  /\ ~panicked
  /\ proc["watcher"].pc = "select" /\ proc["watcher"].out = NoMsg
  /\ dockerStream \in {"error", "closed"}
  /\ dockerStream' \in IF dockerStream = "error" THEN {"silent", "closed"} ELSE {"closed"}
  /\ proc' = [proc EXCEPT !["watcher"].out = Msg("err", "", "")]
  /\ UNCHANGED <<wKind, atStartup, dockerEvents, mgrLoop, got, gotErrs,
                 panicked, active, atClose>>

\* A send of goroutine q meets the manager's select. An event is handed to
\* go HandleProxyEvent (whose AddTarget or DeleteProxy updates the provider's
\* active ids); an error makes the loop return, and the deferred calls close
\* eventsChan and errChan.
Receive(q) ==
  /\ ~panicked
  /\ proc[q].out # NoMsg
  /\ mgrLoop = "select"
  /\ IF proc[q].out.kind = "event"
       THEN /\ got' = Append(got, proc[q].out)
            /\ active' = IF proc[q].out.action = ActionStartProxy
                           THEN active \cup {proc[q].out.id}
                           ELSE active \ {proc[q].out.id}
            /\ UNCHANGED <<mgrLoop, gotErrs>>
       ELSE /\ gotErrs' = gotErrs + 1
            /\ mgrLoop' = "returned"
            /\ UNCHANGED <<got, active>>
  /\ proc' = [proc EXCEPT ![q].out = NoMsg,
                          ![q].pc = IF q # "watcher" /\ proc[q].todo = {} THEN "done"
                                    ELSE proc[q].pc]
  /\ UNCHANGED <<wKind, atStartup, dockerStream, dockerEvents, panicked, atClose>>

\* A send of goroutine q after the manager's loop has closed the channels.
SendOnClosed(q) ==
  /\ ~panicked
  /\ proc[q].out # NoMsg
  /\ mgrLoop = "returned"
  /\ panicked' = TRUE
  /\ UNCHANGED <<wKind, atStartup, dockerStream, dockerEvents, proc, mgrLoop, got,
                 gotErrs, active, atClose>>

\* The startup loop has no target left.
StartupDone ==
  /\ ~panicked
  /\ proc["starter"].pc = "emit" /\ proc["starter"].out = NoMsg
  /\ proc["starter"].todo = {}
  /\ proc' = [proc EXCEPT !["starter"].pc = "done"]
  /\ UNCHANGED <<wKind, atStartup, dockerStream, dockerEvents, mgrLoop, got, gotErrs,
                 panicked, active, atClose>>

\* provider.Close(): the list variant ranges over c.proxies to send a Stop for
\* each; the docker variant closes the engine client and sends nothing.
ProviderClose ==
  /\ ~panicked
  /\ proc["closer"].pc = "idle"
  /\ proc["starter"].pc = "done"
  /\ atClose' = active
  /\ proc' = [proc EXCEPT !["closer"] =
                [pc |-> IF wKind = "list" /\ active # {} THEN "emit" ELSE "done",
                 todo |-> IF wKind = "list" THEN active ELSE {},
                 out |-> NoMsg]]
  /\ UNCHANGED <<wKind, atStartup, dockerStream, dockerEvents, mgrLoop, got, gotErrs,
                 panicked, active>>

\* list Client.Close takes the next name of c.proxies and is about to send
\* its Stop.
CloseNext(id) ==
  /\ ~panicked
  /\ proc["closer"].pc = "emit" /\ proc["closer"].out = NoMsg
  /\ id \in proc["closer"].todo
  /\ proc' = [proc EXCEPT !["closer"].todo = @ \ {id},
                          !["closer"].out = Msg("event", id, ActionStopProxy)]
  /\ UNCHANGED <<wKind, atStartup, dockerStream, dockerEvents, mgrLoop, got, gotErrs,
                 panicked, active, atClose>>

InitWatch ==
  /\ MgrIdle
  /\ ProxyIdle
  /\ LockIdle
  /\ ObsIdle
  /\ BusIdle
  /\ ResIdle
  /\ ListIdle
  /\ cfgTargets = [i \in Ids |-> NoPorts]
  /\ \E kind \in {"docker", "list"}, ids \in SUBSET Ids : WatchIdle(kind, ids)
  /\ MoreIdle

NextWatch ==
  \/ WatchEventsCall /\ UNCHANGED <<mgrVars, bus, proxyVars, lockVars, obsVars, busVars, resVars, listVars, cfgTargets, moreVars>>
  \/ ContainerList /\ UNCHANGED <<mgrVars, bus, proxyVars, lockVars, obsVars, busVars, resVars, listVars, cfgTargets, moreVars>>
  \/ \E id \in Ids : StartupNext(id) /\ UNCHANGED <<mgrVars, bus, proxyVars, lockVars, obsVars, busVars, resVars, listVars, cfgTargets, moreVars>>
  \/ \E sk \in SUBSET Ids : StartupRace(sk) /\ UNCHANGED <<mgrVars, bus, proxyVars, lockVars, obsVars, busVars, resVars, listVars, cfgTargets, moreVars>>
  \/ StartupDone /\ UNCHANGED <<mgrVars, bus, proxyVars, lockVars, obsVars, busVars, resVars, listVars, cfgTargets, moreVars>>
  \/ \E id \in Ids, a \in {ActionStartProxy, ActionStopProxy} : WatcherEvent(id, a) /\ UNCHANGED <<mgrVars, bus, proxyVars, lockVars, obsVars, busVars, resVars, listVars, cfgTargets, moreVars>>
  \/ StreamError /\ UNCHANGED <<mgrVars, bus, proxyVars, lockVars, obsVars, busVars, resVars, listVars, cfgTargets, moreVars>>
  \/ WatcherError /\ UNCHANGED <<mgrVars, bus, proxyVars, lockVars, obsVars, busVars, resVars, listVars, cfgTargets, moreVars>>
  \/ \E q \in {"watcher", "starter", "closer"} : Receive(q) /\ UNCHANGED <<mgrVars, bus, proxyVars, lockVars, obsVars, busVars, resVars, listVars, cfgTargets, moreVars>>
  \/ \E q \in {"watcher", "starter", "closer"} : SendOnClosed(q) /\ UNCHANGED <<mgrVars, bus, proxyVars, lockVars, obsVars, busVars, resVars, listVars, cfgTargets, moreVars>>
  \/ ProviderClose /\ UNCHANGED <<mgrVars, bus, proxyVars, lockVars, obsVars, busVars, resVars, listVars, cfgTargets, moreVars>>
  \/ \E id \in Ids : CloseNext(id) /\ UNCHANGED <<mgrVars, bus, proxyVars, lockVars, obsVars, busVars, resVars, listVars, cfgTargets, moreVars>>

\* The goroutines are scheduled: while a step is possible one is taken.
SpecWatch == InitWatch /\ [][NextWatch]_vars /\ WF_vars(NextWatch)

(***************************************************************************)
(* One proxy: Proxy.Start, Proxy.start, Proxy.startPort, Proxy.Close,      *)
(* Proxy.close, Proxy.setStatus, port.startWithListener, port.close.       *)
(***************************************************************************)
\* setStatus, under proxy.mtx: return when unchanged, else store the status.
SetStatusStore(th) ==
  /\ thr[th].pc = "set"
  /\ IF pStatus = thr[th].arg
       THEN /\ thr' = [thr EXCEPT ![th] = At(thr[th].ret)]
            /\ UNCHANGED <<pStatus, statusLog>>
       ELSE /\ pStatus' = thr[th].arg
            /\ statusLog' = Append(statusLog, thr[th].arg)
            /\ thr' = [thr EXCEPT ![th].pc = "pub"]
  /\ UNCHANGED <<portFailed, bus, pPorts, pending, epStarted, epClosed, epEvents, ctxCancelled,
                 lst, portListener, httpShutdown, serving,
                 closeCalls, closeActive, closeOverlap>>

\* setStatus, after the unlock: onUpdate publishes the event.
SetStatusPublish(th) ==
  /\ thr[th].pc = "pub"
  /\ bus' = Append(bus, [ID |-> ProxyHost, Status |-> thr[th].arg])
  /\ thr' = [thr EXCEPT ![th] = At(thr[th].ret)]
  /\ UNCHANGED <<portFailed, pPorts, pStatus, statusLog, pending, epStarted, epClosed, epEvents,
                 ctxCancelled, lst, portListener, httpShutdown, serving,
                 closeCalls, closeActive, closeOverlap>>

\* start() without the test of portsCount.
StartBeginUnchecked ==
  /\ thr[TStart].pc = "begin"
  /\ thr' = [thr EXCEPT ![TStart] = At("epStart")]
  /\ UNCHANGED <<portFailed, bus, pPorts, pStatus, statusLog, pending, epStarted, epClosed,
                 epEvents, ctxCancelled, lst, portListener, httpShutdown, serving,
                 closeCalls, closeActive, closeOverlap>>

\* start(): no ports configured -> setStatus(Error) and return.
StartBegin ==
  /\ thr[TStart].pc = "begin"
  /\ thr' = [thr EXCEPT ![TStart] =
               IF pPorts = {} THEN Calling("Error", "done") ELSE At("epStart")]
  /\ UNCHANGED <<portFailed, bus, pPorts, pStatus, statusLog, pending, epStarted, epClosed,
                 epEvents, ctxCancelled, lst, portListener, httpShutdown, serving,
                 closeCalls, closeActive, closeOverlap>>

\* start() returning on an endpoint error without proxy.Close().
StartEndpointNoClose ==
  /\ thr[TStart].pc = "epStart"
  /\ \/ /\ epStarted' = TRUE
        /\ pending' = pPorts
        /\ thr' = [thr EXCEPT ![TStart] = At("ports")]
     \/ /\ thr' = [thr EXCEPT ![TStart] = At("done")]
        /\ UNCHANGED <<epStarted, pending>>
  /\ UNCHANGED <<portFailed, bus, pPorts, pStatus, statusLog, epClosed, epEvents, ctxCancelled,
                 lst, portListener, httpShutdown, serving, closeCalls, closeActive, closeOverlap>>

\* start(): providerProxy.Start(ctx); on error proxy.Close() and return.
StartEndpoint ==
  /\ thr[TStart].pc = "epStart"
  /\ \/ /\ epStarted' = TRUE
        /\ pending' = pPorts
        /\ thr' = [thr EXCEPT ![TStart] = At("ports")]
        /\ UNCHANGED <<closeCalls, closeActive, closeOverlap>>
     \/ /\ thr' = [thr EXCEPT ![TStart] = Calling("Stopping", "teardown")]
        /\ closeCalls' = closeCalls + 1
        /\ closeActive' = closeActive + 1
        /\ closeOverlap' = (closeOverlap \/ closeActive > 0)
        /\ UNCHANGED <<epStarted, pending>>
  /\ UNCHANGED <<portFailed, bus, pPorts, pStatus, statusLog, epClosed, epEvents, ctxCancelled,
                 lst, portListener, httpShutdown, serving>>

\* start() giving up with setStatus(Error) at the first GetListener error.
StartPortAbort(k) ==
  /\ thr[TStart].pc = "ports"
  /\ k \in pending
  /\ pending' = pending \ {k}
  /\ \/ /\ lst' = [lst EXCEPT ![k] = "open"]
        /\ thr' = [thr EXCEPT ![<<"port", k>>] = At("spawned"),
                              ![TStart] = At(IF pending = {k} THEN "done" ELSE "ports")]
     \/ /\ thr' = [thr EXCEPT ![TStart] = Calling("Error", "done")]
        /\ UNCHANGED lst
  /\ UNCHANGED <<portFailed, bus, pPorts, pStatus, statusLog, epStarted, epClosed, epEvents,
                 ctxCancelled, portListener, httpShutdown, serving,
                 closeCalls, closeActive, closeOverlap>>

\* start(): one round of the loop over the port keys: GetListener(k), then
\* startPort(k, l) spawns the port worker; a GetListener error skips the port.
StartPort(k) ==
  /\ thr[TStart].pc = "ports"
  /\ k \in pending
  /\ pending' = pending \ {k}
  /\ \/ /\ lst' = [lst EXCEPT ![k] = "open"]
        /\ thr' = [thr EXCEPT ![<<"port", k>>] = At("spawned"),
                              ![TStart] = At(IF pending = {k} THEN "done" ELSE "ports")]
     \/ /\ thr' = [thr EXCEPT ![TStart] = At(IF pending = {k} THEN "done" ELSE "ports")]
        /\ UNCHANGED lst
  /\ UNCHANGED <<portFailed, bus, pPorts, pStatus, statusLog, epStarted, epClosed, epEvents,
                 ctxCancelled, portListener, httpShutdown, serving,
                 closeCalls, closeActive, closeOverlap>>

\* port.startWithListener: store the listener, then httpServer.Serve(l). Serve
\* on a shut-down server or a closed listener closes l and returns at once
\* (ErrServerClosed, net.ErrClosed: not reported as errors).
PortServe(k) ==
  /\ thr[<<"port", k>>].pc = "spawned"
  /\ portListener' = [portListener EXCEPT ![k] = TRUE]
  /\ IF httpShutdown[k] \/ lst[k] = "closed"
       THEN /\ lst' = [lst EXCEPT ![k] = "closed"]
            /\ thr' = [thr EXCEPT ![<<"port", k>>] = At("done")]
            /\ UNCHANGED serving
       ELSE /\ serving' = [serving EXCEPT ![k] = TRUE]
            /\ thr' = [thr EXCEPT ![<<"port", k>>] = At("serving")]
            /\ UNCHANGED lst
  /\ UNCHANGED <<portFailed, bus, pPorts, pStatus, statusLog, pending, epStarted, epClosed,
                 epEvents, ctxCancelled, httpShutdown,
                 closeCalls, closeActive, closeOverlap>>

\* Serve ends with another error and startPort's goroutine only logs it.
PortFailSilent(k) ==
  /\ thr[<<"port", k>>].pc = "serving"
  /\ Cardinality({j \in PortKeys : portFailed[j]}) < MaxPortErrors
  /\ portFailed' = [portFailed EXCEPT ![k] = TRUE]
  /\ serving' = [serving EXCEPT ![k] = FALSE]
  /\ lst' = [lst EXCEPT ![k] = "closed"]
  /\ thr' = [thr EXCEPT ![<<"port", k>>] = At("done")]
  /\ UNCHANGED <<bus, pPorts, pStatus, statusLog, pending, epStarted, epClosed,
                 epEvents, ctxCancelled, portListener, httpShutdown,
                 closeCalls, closeActive, closeOverlap>>

\* Serve ends with another error: startPort's goroutine calls setStatus(Error).
PortFail(k) ==
  /\ thr[<<"port", k>>].pc = "serving"
  /\ Cardinality({j \in PortKeys : portFailed[j]}) < MaxPortErrors
  /\ portFailed' = [portFailed EXCEPT ![k] = TRUE]
  /\ serving' = [serving EXCEPT ![k] = FALSE]
  /\ lst' = [lst EXCEPT ![k] = "closed"]
  /\ thr' = [thr EXCEPT ![<<"port", k>>] = Calling("Error", "done")]
  /\ UNCHANGED <<bus, pPorts, pStatus, statusLog, pending, epStarted, epClosed,
                 epEvents, ctxCancelled, portListener, httpShutdown,
                 closeCalls, closeActive, closeOverlap>>

\* Proxy.Start's goroutine receives an event of the endpoint and is about to
\* call setStatus(event.Status); the endpoint emits at most limit events.
Forward(s, limit) ==
  /\ thr[TFwd].pc = "idle"
  /\ epStarted /\ ~epClosed
  /\ epEvents < limit
  /\ epEvents' = epEvents + 1
  /\ thr' = [thr EXCEPT ![TFwd] = Calling(s, "idle")]
  /\ UNCHANGED <<portFailed, bus, pPorts, pStatus, statusLog, pending, epStarted, epClosed,
                 ctxCancelled, lst, portListener, httpShutdown, serving,
                 closeCalls, closeActive, closeOverlap>>

ForwardEvent(s) == Forward(s, MaxEndpointEvents)

JoinEvent(s) == Forward(s, MaxJoinEvents)

\* Proxy.Close is called (removeProxy): first statement setStatus(Stopping).
CloseCall(c) ==
  /\ thr[c].pc = "idle"
  /\ \A d \in Closers : d[2] < c[2] => thr[d].pc # "idle"
  /\ thr' = [thr EXCEPT ![c] = Calling("Stopping", "teardown")]
  /\ closeCalls' = closeCalls + 1
  /\ closeActive' = closeActive + 1
  /\ closeOverlap' = (closeOverlap \/ closeActive > 0)
  /\ UNCHANGED <<portFailed, bus, pPorts, pStatus, statusLog, pending, epStarted, epClosed,
                 epEvents, ctxCancelled, lst, portListener, httpShutdown, serving>>

\* port.close for the ports in ks: httpServer.Shutdown closes the listener Serve
\* runs on, then the stored listener, if any, is closed.
portClose(l, ks) ==
  [k \in PortKeys |->
     IF k \in ks /\ l[k] = "open" /\ (serving[k] \/ portListener[k])
       THEN "closed" ELSE l[k]]

\* providerProxy.Close: tsServer.Close closes the listeners the server vended.
endpointClose(l) ==
  [k \in PortKeys |-> IF l[k] = "open" THEN "closed" ELSE l[k]]

\* Proxy.Close: proxy.cancel(), proxy.close(), then setStatus(Stopped).
Teardown(th) ==
  /\ thr[th].pc = "teardown"
  /\ ctxCancelled' = TRUE
  /\ httpShutdown' = [k \in PortKeys |-> httpShutdown[k] \/ k \in pPorts]
  /\ serving' = [k \in PortKeys |-> serving[k] /\ k \notin pPorts]
  /\ lst' = endpointClose(portClose(lst, pPorts))
  /\ epClosed' = TRUE
  /\ thr' = [x \in Threads |->
               IF x = th THEN Calling("Stopped", "closed")
               ELSE IF x \in Workers /\ thr[x].pc = "serving" /\ x[2] \in pPorts
                 THEN At("done")
               ELSE thr[x]]
  /\ UNCHANGED <<portFailed, bus, pPorts, pStatus, statusLog, pending, epStarted, epEvents,
                 portListener, closeCalls, closeActive, closeOverlap>>

\* Proxy.Close returns.
CloseReturn(th) ==
  /\ thr[th].pc = "closed"
  /\ thr' = [thr EXCEPT ![th] = At("done")]
  /\ closeActive' = closeActive - 1
  /\ UNCHANGED <<portFailed, bus, pPorts, pStatus, statusLog, pending, epStarted, epClosed,
                 epEvents, ctxCancelled, lst, portListener, httpShutdown, serving,
                 closeCalls, closeOverlap>>

\* The state right after newAndStartProxy: Initializing broadcast, p.Start()
\* called; nothing of the manager is modelled. closerPc is "idle" when callers
\* of Close exist and "done" when there are none.
ProxyStarted(closerPc) ==
  /\ cfgHost = [i \in Ids |-> ProxyHost]
  /\ cfgProvider = [i \in Ids |-> ""]
  /\ present = {}
  /\ toStart = {}
  /\ book = {}
  /\ tasks = <<>>
  /\ proxies = <<>>
  /\ reg = [h \in Hosts |-> 0]
  /\ bus = <<[ID |-> ProxyHost, Status |-> "Initializing"]>>
  /\ pPorts \in {{}, {1}, PortKeys}
  /\ pStatus = "Initializing"
  /\ statusLog = <<"Initializing">>
  /\ thr = [th \in Threads |->
              IF th = TStart THEN At("begin")
              ELSE IF th = TFwd THEN At("idle")
              ELSE IF th \in Closers THEN At(closerPc)
              ELSE At("off")]
  /\ pending = {}
  /\ epStarted = FALSE
  /\ epClosed = FALSE
  /\ epEvents = 0
  /\ ctxCancelled = FALSE
  /\ lst = [k \in PortKeys |-> "none"]
  /\ portListener = [k \in PortKeys |-> FALSE]
  /\ httpShutdown = [k \in PortKeys |-> FALSE]
  /\ serving = [k \in PortKeys |-> FALSE]
  /\ portFailed = [k \in PortKeys |-> FALSE]
  /\ closeCalls = 0
  /\ closeActive = 0
  /\ closeOverlap = FALSE
  /\ LockIdle
  /\ ObsIdle
  /\ BusIdle
  /\ ExtIdle

InitProxy == ProxyStarted("idle")

InitJoin == ProxyStarted("done")

NextProxy ==
  \/ StartBegin /\ UNCHANGED <<mgrVars, lockVars, obsVars, busVars, extVars>>
  \/ StartEndpoint /\ UNCHANGED <<mgrVars, lockVars, obsVars, busVars, extVars>>
  \/ \E k \in PortKeys : StartPort(k) /\ UNCHANGED <<mgrVars, lockVars, obsVars, busVars, extVars>>
  \/ \E k \in PortKeys : PortServe(k) /\ UNCHANGED <<mgrVars, lockVars, obsVars, busVars, extVars>>
  \/ \E k \in PortKeys : PortFail(k) /\ UNCHANGED <<mgrVars, lockVars, obsVars, busVars, extVars>>
  \/ \E s \in EndpointStatuses : ForwardEvent(s) /\ UNCHANGED <<mgrVars, lockVars, obsVars, busVars, extVars>>
  \/ \E c \in Closers : CloseCall(c) /\ UNCHANGED <<mgrVars, lockVars, obsVars, busVars, extVars>>
  \/ \E th \in Threads : SetStatusStore(th) /\ UNCHANGED <<mgrVars, lockVars, obsVars, busVars, extVars>>
  \/ \E th \in Threads : SetStatusPublish(th) /\ UNCHANGED <<mgrVars, lockVars, obsVars, busVars, extVars>>
  \/ \E th \in Threads : Teardown(th) /\ UNCHANGED <<mgrVars, lockVars, obsVars, busVars, extVars>>
  \/ \E th \in Threads : CloseReturn(th) /\ UNCHANGED <<mgrVars, lockVars, obsVars, busVars, extVars>>

SpecProxy == InitProxy /\ [][NextProxy]_vars

NextJoin ==
  \/ StartBegin /\ UNCHANGED <<mgrVars, lockVars, obsVars, busVars, extVars>>
  \/ StartEndpoint /\ UNCHANGED <<mgrVars, lockVars, obsVars, busVars, extVars>>
  \/ \E k \in PortKeys : StartPort(k) /\ UNCHANGED <<mgrVars, lockVars, obsVars, busVars, extVars>>
  \/ \E k \in PortKeys : PortServe(k) /\ UNCHANGED <<mgrVars, lockVars, obsVars, busVars, extVars>>
  \/ \E k \in PortKeys : PortFail(k) /\ UNCHANGED <<mgrVars, lockVars, obsVars, busVars, extVars>>
  \/ \E s \in EndpointStatuses : JoinEvent(s) /\ UNCHANGED <<mgrVars, lockVars, obsVars, busVars, extVars>>
  \/ \E th \in Threads : SetStatusStore(th) /\ UNCHANGED <<mgrVars, lockVars, obsVars, busVars, extVars>>
  \/ \E th \in Threads : SetStatusPublish(th) /\ UNCHANGED <<mgrVars, lockVars, obsVars, busVars, extVars>>
  \/ \E th \in Threads : Teardown(th) /\ UNCHANGED <<mgrVars, lockVars, obsVars, busVars, extVars>>
  \/ \E th \in Threads : CloseReturn(th) /\ UNCHANGED <<mgrVars, lockVars, obsVars, busVars, extVars>>

SpecJoin == InitJoin /\ [][NextJoin]_vars

(***************************************************************************)
(* The endpoint of the mesh provider: watchStatus reads the backend state  *)
(* on every notification and calls its setStatus, which sends an event on  *)
(* the unbuffered channel Proxy.Start's forwarder ranges over.             *)
(***************************************************************************)
\* What p.lc.Status returns at a notification: BackendState, AuthURL and
\* Self.DNSName (a sequence of characters, "." being the trailing dot).
Notifications ==
  {[state |-> "NoState", authURL |-> "", dns |-> <<>>],
   [state |-> "Starting", authURL |-> "", dns |-> <<>>],
   [state |-> "NeedsLogin", authURL |-> "", dns |-> <<>>],
   [state |-> "NeedsLogin", authURL |-> "U", dns |-> <<>>],
   [state |-> "Running", authURL |-> "", dns |-> <<"d", ".">>]}

\* strings.TrimRight(s, "."): s without its trailing dots.
RECURSIVE TrimRight(_)
TrimRight(s) ==
  IF s # <<>> /\ s[Len(s)] = "." THEN TrimRight(SubSeq(s, 1, Len(s) - 1)) ELSE s

\* GetURL: "https://" + p.url.
GetURL == <<"https://">> \o ep.url

\* The endpoint's setStatus with the empty values stored too.
tsSetStatusOverwrite(e, status, url, authURL) ==
  IF e.status = status /\ e.url = url /\ e.authURL = authURL
    THEN e
    ELSE [e EXCEPT !.status = status, !.url = url, !.authURL = authURL,
                   !.pc = "send", !.out = status]

\* The endpoint's setStatus up to the channel send: nothing when the three
\* values are the stored ones; url and authURL are stored when not empty.
tsSetStatus(e, status, url, authURL) ==
  IF e.status = status /\ e.url = url /\ e.authURL = authURL
    THEN e
    ELSE [e EXCEPT !.status = status,
                   !.url = IF url # <<>> THEN url ELSE @,
                   !.authURL = IF authURL # "" THEN authURL ELSE @,
                   !.pc = "send", !.out = status]

\* watchStatus: watcher.Next and lc.Status return n; the switch on BackendState.
WatchStatusNext(n) ==
  /\ ep.pc = "next"
  /\ epStarted
  /\ Len(ep.seen) < MaxNotifications
  /\ LET e == [ep EXCEPT !.seen = Append(@, n)]
     IN ep' = CASE n.state = "NeedsLogin" /\ n.authURL # "" ->
                     tsSetStatus(e, "Authenticating", <<>>, n.authURL)
                [] n.state = "Starting" -> tsSetStatus(e, "Starting", <<>>, "")
                [] n.state = "Running" ->
                     LET r == tsSetStatus(e, "Running", TrimRight(n.dns), "")
                     IN IF r.pc = "send" THEN r ELSE [r EXCEPT !.pc = "check"]
                [] OTHER -> e

\* setStatus: p.events <- event, taken by the forwarder of Proxy.Start.
WatchStatusSend ==
  /\ ep.pc = "send"
  /\ thr[TFwd].pc = "idle"
  /\ thr' = [thr EXCEPT ![TFwd] = Calling(ep.out, "idle")]
  /\ ep' = [ep EXCEPT !.pc = IF ep.out = "Running" THEN "check" ELSE "next"]
  /\ UNCHANGED <<portFailed, bus, pPorts, pStatus, statusLog, pending, epStarted, epClosed,
                 epEvents, ctxCancelled, lst, portListener, httpShutdown, serving,
                 closeCalls, closeActive, closeOverlap>>

\* watchStatus, case Running after setStatus returned:
\* if p.status != ProxyStatusRunning { p.getTLSCertificates() }.
WatchStatusCheck ==
  /\ ep.pc = "check"
  /\ ep' = [ep EXCEPT !.pc = "next",
                      !.certs = IF ep.status # "Running" THEN @ + 1 ELSE @]

InitEndpoint == ProxyStarted("done")

NextEndpoint ==
  \/ StartBegin /\ UNCHANGED <<mgrVars, lockVars, obsVars, busVars, extVars>>
  \/ StartEndpoint /\ UNCHANGED <<mgrVars, lockVars, obsVars, busVars, extVars>>
  \/ \E k \in PortKeys : StartPort(k) /\ UNCHANGED <<mgrVars, lockVars, obsVars, busVars, extVars>>
  \/ \E k \in PortKeys : PortServe(k) /\ UNCHANGED <<mgrVars, lockVars, obsVars, busVars, extVars>>
  \/ \E k \in PortKeys : PortFail(k) /\ UNCHANGED <<mgrVars, lockVars, obsVars, busVars, extVars>>
  \/ \E n \in Notifications : WatchStatusNext(n) /\ UNCHANGED <<mgrVars, bus, proxyVars, lockVars, obsVars, busVars, resVars, listVars, cfgTargets, watchVars, stopAll, req, closing, multi, dash>>
  \/ WatchStatusSend /\ UNCHANGED <<mgrVars, lockVars, obsVars, busVars, resVars, listVars, cfgTargets, watchVars, stopAll, req, closing, multi, dash>>
  \/ WatchStatusCheck /\ UNCHANGED <<mgrVars, bus, proxyVars, lockVars, obsVars, busVars, resVars, listVars, cfgTargets, watchVars, stopAll, req, closing, multi, dash>>
  \/ \E th \in Threads : SetStatusStore(th) /\ UNCHANGED <<mgrVars, lockVars, obsVars, busVars, extVars>>
  \/ \E th \in Threads : SetStatusPublish(th) /\ UNCHANGED <<mgrVars, lockVars, obsVars, busVars, extVars>>
  \/ \E th \in Threads : Teardown(th) /\ UNCHANGED <<mgrVars, lockVars, obsVars, busVars, extVars>>
  \/ \E th \in Threads : CloseReturn(th) /\ UNCHANGED <<mgrVars, lockVars, obsVars, busVars, extVars>>

SpecEndpoint == InitEndpoint /\ [][NextEndpoint]_vars

(***************************************************************************)
(* Proxy.Close statement by statement: setStatus(Stopping), proxy.cancel(),*)
(* proxy.close() (port.close for every port: httpServer.Shutdown, then     *)
(* listener.Close; then providerProxy.Close), setStatus(Stopped). Each     *)
(* call keeps the list of the steps it has done.                           *)
(***************************************************************************)
Step(th, name, k) ==
  [closing EXCEPT ![th].log = Append(@, [step |-> name, port |-> k])]

\* proxy.cancel(), then proxy.close() starts its range over proxy.ports.
CloseCancel(th) ==
  /\ thr[th].pc = "teardown"
  /\ ctxCancelled' = TRUE
  /\ thr' = [thr EXCEPT ![th] = At("closePorts")]
  /\ closing' = [Step(th, "cancel", 0) EXCEPT ![th].todo = pPorts]
  /\ UNCHANGED <<portFailed, bus, pPorts, pStatus, statusLog, pending, epStarted, epClosed,
                 epEvents, lst, portListener, httpShutdown, serving,
                 closeCalls, closeActive, closeOverlap>>

\* port.close: httpServer.Shutdown. A running Serve returns ErrServerClosed and
\* the listener it serves is closed.
PortShutdown(th, k) ==
  /\ thr[th].pc = "closePorts"
  /\ closing[th].cur = 0
  /\ k \in closing[th].todo
  /\ httpShutdown' = [httpShutdown EXCEPT ![k] = TRUE]
  /\ serving' = [serving EXCEPT ![k] = FALSE]
  /\ lst' = [lst EXCEPT ![k] = IF serving[k] THEN "closed" ELSE @]
  /\ thr' = [thr EXCEPT ![<<"port", k>>] = IF @.pc = "serving" THEN At("done") ELSE @]
  /\ closing' = [Step(th, "shutdown", k) EXCEPT ![th].cur = k]
  /\ UNCHANGED <<portFailed, bus, pPorts, pStatus, statusLog, pending, epStarted, epClosed,
                 epEvents, ctxCancelled, portListener, closeCalls, closeActive, closeOverlap>>

\* port.close: listener.Close when p.listener is set, then p.cancel().
PortListenerClose(th, k) ==
  /\ thr[th].pc = "closePorts"
  /\ closing[th].cur = k
  /\ lst' = [lst EXCEPT ![k] = IF portListener[k] /\ @ = "open" THEN "closed" ELSE @]
  /\ closing' = [Step(th, "listener", k) EXCEPT ![th].cur = 0, ![th].todo = @ \ {k}]
  /\ UNCHANGED <<portFailed, bus, pPorts, pStatus, statusLog, pending, epStarted, epClosed,
                 epEvents, ctxCancelled, portListener, httpShutdown, serving, thr,
                 closeCalls, closeActive, closeOverlap>>

\* proxy.close with providerProxy.Close before the ports are done.
CloseEndpointEarly(th) ==
  /\ thr[th].pc = "closePorts"
  /\ closing[th].cur = 0
  /\ epClosed' = TRUE
  /\ lst' = endpointClose(lst)
  /\ thr' = [thr EXCEPT ![th] = Calling("Stopped", "closed")]
  /\ closing' = Step(th, "endpoint", 0)
  /\ UNCHANGED <<portFailed, bus, pPorts, pStatus, statusLog, pending, epStarted,
                 epEvents, ctxCancelled, portListener, httpShutdown, serving,
                 closeCalls, closeActive, closeOverlap>>

\* proxy.close after the range: providerProxy.Close; Close goes on with
\* setStatus(Stopped).
CloseEndpoint(th) ==
  /\ thr[th].pc = "closePorts"
  /\ closing[th].cur = 0
  /\ closing[th].todo = {}
  /\ epClosed' = TRUE
  /\ lst' = endpointClose(lst)
  /\ thr' = [thr EXCEPT ![th] = Calling("Stopped", "closed")]
  /\ closing' = Step(th, "endpoint", 0)
  /\ UNCHANGED <<portFailed, bus, pPorts, pStatus, statusLog, pending, epStarted,
                 epEvents, ctxCancelled, portListener, httpShutdown, serving,
                 closeCalls, closeActive, closeOverlap>>

InitClose == ProxyStarted("idle")

NextClose ==
  \/ StartBegin /\ UNCHANGED <<mgrVars, lockVars, obsVars, busVars, extVars>>
  \/ StartEndpoint /\ UNCHANGED <<mgrVars, lockVars, obsVars, busVars, extVars>>
  \/ \E k \in PortKeys : StartPort(k) /\ UNCHANGED <<mgrVars, lockVars, obsVars, busVars, extVars>>
  \/ \E k \in PortKeys : PortServe(k) /\ UNCHANGED <<mgrVars, lockVars, obsVars, busVars, extVars>>
  \/ \E k \in PortKeys : PortFail(k) /\ UNCHANGED <<mgrVars, lockVars, obsVars, busVars, extVars>>
  \/ \E c \in Closers : CloseCall(c) /\ UNCHANGED <<mgrVars, lockVars, obsVars, busVars, extVars>>
  \/ \E th \in Threads : SetStatusStore(th) /\ closing' = (IF thr[th].ret \in {"teardown", "closed"} THEN Step(th, thr[th].arg, 0) ELSE closing) /\ UNCHANGED <<mgrVars, lockVars, obsVars, busVars, resVars, listVars, cfgTargets, watchVars, stopAll, ep, req, multi, dash>>
  \/ \E th \in Threads : SetStatusPublish(th) /\ UNCHANGED <<mgrVars, lockVars, obsVars, busVars, extVars>>
  \/ \E th \in Threads : CloseCancel(th) /\ UNCHANGED <<mgrVars, bus, lockVars, obsVars, busVars, resVars, listVars, cfgTargets, watchVars, stopAll, ep, req, multi, dash>>
  \/ \E th \in Threads, k \in PortKeys : PortShutdown(th, k) /\ UNCHANGED <<mgrVars, bus, lockVars, obsVars, busVars, resVars, listVars, cfgTargets, watchVars, stopAll, ep, req, multi, dash>>
  \/ \E th \in Threads, k \in PortKeys : PortListenerClose(th, k) /\ UNCHANGED <<mgrVars, bus, lockVars, obsVars, busVars, resVars, listVars, cfgTargets, watchVars, stopAll, ep, req, multi, dash>>
  \/ \E th \in Threads : CloseEndpoint(th) /\ UNCHANGED <<mgrVars, bus, lockVars, obsVars, busVars, resVars, listVars, cfgTargets, watchVars, stopAll, ep, req, multi, dash>>
  \/ \E th \in Threads : CloseReturn(th) /\ UNCHANGED <<mgrVars, lockVars, obsVars, busVars, extVars>>

SpecClose == InitClose /\ [][NextClose]_vars

(***************************************************************************)
(* One request on a reverse-proxy port: ProviderUserMiddleware puts the    *)
(* result of the endpoint's Whois into the request context, then the       *)
(* reverse proxy's Rewrite builds the outbound headers. A header is the    *)
(* sequence of its values, empty when the header is absent.                *)
(***************************************************************************)
\* consts.HeaderUsername, HeaderDisplayName, HeaderProfilePicURL.
IdentityHeaders == {"X-Username", "X-Display-Name", "X-Profile-Pic-URL"}

\* Proxy.Whois: the zero Whois when lc.WhoIs fails, else the user profile.
Whois(lookup) ==
  IF lookup.err
    THEN [DisplayName |-> "", Username |-> "", ID |-> "", ProfilePicURL |-> ""]
    ELSE [DisplayName |-> lookup.profile.DisplayName,
          Username |-> lookup.profile.LoginName,
          ID |-> lookup.profile.ID,
          ProfilePicURL |-> lookup.profile.ProfilePicURL]

\* model.WhoisFromContext: the identity the context carries, ok when the
\* context carries one that is not empty.
WhoisFromContext(c) ==
  [user |-> c.who,
   ok |-> c.set /\ c.who # [DisplayName |-> "", Username |-> "", ID |-> "",
                            ProfilePicURL |-> ""]]

\* Rewrite without the identity headers.
RewriteNoIdentity(r) ==
  [h \in DOMAIN r.in |->
     IF h = "X-Forwarded-For" THEN Append(r.in[h], "peer") ELSE r.in[h]]

\* ReverseProxy.Rewrite: the outbound headers are the inbound ones, with the
\* three identity headers set when the context has an identity, and the peer
\* appended to X-Forwarded-For (SetXForwarded). SetURL and Host are left out.
Rewrite(r) ==
  LET w == WhoisFromContext(r.ctx)
  IN [h \in DOMAIN r.in |->
        CASE h = "X-Forwarded-For" -> Append(r.in[h], "peer")
          [] w.ok /\ h = "X-Username" -> <<w.user.Username>>
          [] w.ok /\ h = "X-Display-Name" -> <<w.user.DisplayName>>
          [] w.ok /\ h = "X-Profile-Pic-URL" -> <<w.user.ProfilePicURL>>
          [] OTHER -> r.in[h]]

\* ProviderUserMiddleware: who := Whois(r); ctx := WhoisNewContext(ctx, who).
ProviderUserMiddleware ==
  /\ req.pc = "new"
  /\ req' = [req EXCEPT !.pc = "ctx", !.ctx = [set |-> TRUE, who |-> Whois(req.lookup)]]

\* next.ServeHTTP: the reverse proxy runs Rewrite and sends the request on.
ServeHTTP ==
  /\ req.pc = "ctx"
  /\ req' = [req EXCEPT !.pc = "sent", !.out = Rewrite(req)]

\* A request arrives: what lc.WhoIs will answer and the headers the client sent.
InitHeaders ==
  /\ MgrIdle
  /\ bus = <<>>
  /\ ProxyIdle
  /\ LockIdle
  /\ ObsIdle
  /\ BusIdle
  /\ ResIdle
  /\ ListIdle
  /\ cfgTargets = [i \in Ids |-> NoPorts]
  /\ WatchIdle("list", {})
  /\ stopAll = [pc |-> "idle", snap |-> {}]
  /\ ep = EndpointNew
  /\ closing = [th \in Threads |-> [todo |-> {}, cur |-> 0, log |-> <<>>]]
  /\ multi = [phase |-> "none"]
  /\ dash = [pc |-> "none"]
  /\ \E err \in BOOLEAN,
        profile \in [DisplayName : {"", "U Name"}, LoginName : {"", "u"},
                     ID : {"", "1"}, ProfilePicURL : {"", "pic"}],
        in \in [IdentityHeaders \cup {"X-Forwarded-For"} -> {<<>>, <<"sent">>}] :
       req = [pc |-> "new", lookup |-> [err |-> err, profile |-> profile], in |-> in,
              ctx |-> [set |-> FALSE, who |-> Whois([err |-> TRUE])], out |-> in]

NextHeaders ==
  \/ ProviderUserMiddleware /\ UNCHANGED <<mgrVars, bus, proxyVars, lockVars, obsVars, busVars, resVars, listVars, cfgTargets, watchVars, stopAll, ep, closing, multi, dash>>
  \/ ServeHTTP /\ UNCHANGED <<mgrVars, bus, proxyVars, lockVars, obsVars, busVars, resVars, listVars, cfgTargets, watchVars, stopAll, ep, closing, multi, dash>>

SpecHeaders == InitHeaders /\ [][NextHeaders]_vars

(***************************************************************************)
(* The manager with several target providers. Start adds the providers of  *)
(* the configuration to pm.TargetProviders (docker ones first, then list   *)
(* ones, each under its configured name), WatchEvents starts one worker    *)
(* per entry of that map, and the events of one target id are handled one  *)
(* after another.                                                          *)
(***************************************************************************)
\* The providers a configuration can name: <<kind, name>>.
TargetProviderConfigs == {<<"docker", "n1">>, <<"list", "n1">>, <<"list", "n2">>}

NoProvider == <<"none", "">>

\* addTargetProviders, one iteration: docker.New or list.New, then
\* addTargetProvider unless the constructor failed.
AddTargetProvider(p, ok) ==
  /\ multi.phase = "adding"
  /\ p \in multi.todo
  /\ p[1] = "list" => \A q \in multi.todo : q[1] # "docker"
  /\ multi' = [multi EXCEPT !.todo = @ \ {p},
                            !.created = IF ok THEN @ \cup {p} ELSE @,
                            !.tp = IF ok THEN [@ EXCEPT ![p[2]] = p] ELSE @]

\* WatchEvents: one goroutine per value of pm.TargetProviders.
WatchEventsAll ==
  /\ multi.phase = "adding"
  /\ multi.todo = {}
  /\ multi' = [multi EXCEPT !.phase = "watching",
                            !.workers = {multi.tp[n] : n \in DOMAIN multi.tp} \ {NoProvider}]

\* Provider p emits Start for the id and the manager handles it: AddTarget
\* (bookkeeping), NewProxy, addProxy under the hostname p's config gives.
eventStartOf(p) ==
  /\ multi.phase = "watching"
  /\ p \in multi.workers
  /\ ~multi.has[p]
  /\ multi.n < MaxProviderEvents
  /\ multi' = [multi EXCEPT !.has[p] = TRUE, !.book[p] = TRUE,
                            !.reg[multi.hostOf[p]] = p,
                            !.live = @ \cup {p}, !.n = @ + 1]

\* Provider p emits Stop for the id and the manager handles it:
\* getProxyByTargetID compares target ids only, DeleteProxy is called on the
\* provider registered under the found proxy's Config.TargetProvider name,
\* then removeProxy closes and deletes the found proxy.
eventStopOf(p) ==
  /\ multi.phase = "watching"
  /\ p \in multi.workers
  /\ multi.has[p]
  /\ multi.n < MaxProviderEvents
  /\ LET found == {multi.reg[h] : h \in Hosts} \ {NoProvider}
     IN \/ /\ found = {}
           /\ multi' = [multi EXCEPT !.has[p] = FALSE, !.n = @ + 1,
                                     !.last = [by |-> p, closed |-> NoProvider]]
        \/ \E q \in found :
             LET owner == multi.tp[q[2]]
             IN IF multi.book[owner]
                  THEN multi' = [multi EXCEPT !.has[p] = FALSE, !.n = @ + 1,
                                              !.book[owner] = FALSE,
                                              !.reg[multi.hostOf[q]] = NoProvider,
                                              !.live = @ \ {q},
                                              !.last = [by |-> p, closed |-> q]]
                  ELSE multi' = [multi EXCEPT !.has[p] = FALSE, !.n = @ + 1,
                                              !.last = [by |-> p, closed |-> NoProvider]]

\* A configuration (providers, and the hostname each gives the target), before
\* ProxyManager.Start.
InitProviders ==
  /\ MgrIdle
  /\ bus = <<>>
  /\ ProxyIdle
  /\ LockIdle
  /\ ObsIdle
  /\ BusIdle
  /\ ResIdle
  /\ ListIdle
  /\ cfgTargets = [i \in Ids |-> NoPorts]
  /\ WatchIdle("list", {})
  /\ stopAll = [pc |-> "idle", snap |-> {}]
  /\ ep = EndpointNew
  /\ req = [pc |-> "none"]
  /\ closing = [th \in Threads |-> [todo |-> {}, cur |-> 0, log |-> <<>>]]
  /\ dash = [pc |-> "none"]
  /\ \E cfg \in SUBSET TargetProviderConfigs, hostOf \in [TargetProviderConfigs -> Hosts] :
       multi = [phase |-> "adding", cfg |-> cfg, todo |-> cfg, created |-> {},
                hostOf |-> hostOf,
                tp |-> [n \in {"n1", "n2"} |-> NoProvider],
                workers |-> {},
                has |-> [q \in TargetProviderConfigs |-> FALSE],
                book |-> [q \in TargetProviderConfigs |-> FALSE],
                reg |-> [h \in Hosts |-> NoProvider],
                live |-> {}, n |-> 0,
                last |-> [by |-> NoProvider, closed |-> NoProvider]]

NextProviders ==
  \/ \E q \in TargetProviderConfigs, ok \in BOOLEAN : AddTargetProvider(q, ok) /\ UNCHANGED <<mgrVars, bus, proxyVars, lockVars, obsVars, busVars, resVars, listVars, cfgTargets, watchVars, stopAll, ep, req, closing, dash>>
  \/ WatchEventsAll /\ UNCHANGED <<mgrVars, bus, proxyVars, lockVars, obsVars, busVars, resVars, listVars, cfgTargets, watchVars, stopAll, ep, req, closing, dash>>
  \/ \E q \in TargetProviderConfigs : eventStartOf(q) /\ UNCHANGED <<mgrVars, bus, proxyVars, lockVars, obsVars, busVars, resVars, listVars, cfgTargets, watchVars, stopAll, ep, req, closing, dash>>
  \/ \E q \in TargetProviderConfigs : eventStopOf(q) /\ UNCHANGED <<mgrVars, bus, proxyVars, lockVars, obsVars, busVars, resVars, listVars, cfgTargets, watchVars, stopAll, ep, req, closing, dash>>

SpecProviders == InitProviders /\ [][NextProviders]_vars

(***************************************************************************)
(* The dashboard's stream clients. streamHandler registers a client under  *)
(* dash.mtx, starts the goroutine that renders the list, and receives from *)
(* the client's unbuffered channel until the request ends; its deferred    *)
(* removeSSEClient takes the write lock. streamProxyUpdates sends to every *)
(* client while it holds the read lock.                                    *)
(***************************************************************************)
Sessions == {"c1", "c2"}

\* A goroutine has called dash.mtx.Lock() and waits for it: sync.RWMutex
\* grants no new read lock meanwhile.
WriterPending == \E s \in Sessions : dash.hnd[s] \in {"connecting", "removing"}

\* streamHandler is called: make(chan SSEMessage, 0), dash.mtx.Lock() ...
StreamHandlerCall(s) ==
  /\ dash.hnd[s] = "none"
  /\ dash' = [dash EXCEPT !.hnd[s] = "connecting"]

\* ... the lock is granted: register the client, Unlock, go renderList and
\* updateUser, enter the select loop.
StreamHandlerRegister(s) ==
  /\ dash.hnd[s] = "connecting"
  /\ dash.readers = {}
  /\ dash' = [dash EXCEPT !.hnd[s] = "loop", !.clients = @ \cup {s},
                          !.rnd[s] = [pc |-> "start", left |-> 0]]

\* renderList: dash.mtx.RLock().
RenderListRLock(s) ==
  /\ dash.rnd[s].pc = "start"
  /\ ~WriterPending
  /\ dash' = [dash EXCEPT !.rnd[s] = [pc |-> "locked", left |-> RenderMessages],
                          !.readers = @ \cup {s}]

\* renderList: ch <- SSEMessage (unbuffered: the handler must be receiving).
RenderListSend(s) ==
  /\ dash.rnd[s].pc = "locked"
  /\ dash.rnd[s].left > 0
  /\ dash.hnd[s] = "loop"
  /\ dash' = [dash EXCEPT !.rnd[s].left = @ - 1]

\* renderList returns: deferred RUnlock.
RenderListRUnlock(s) ==
  /\ dash.rnd[s].pc = "locked"
  /\ dash.rnd[s].left = 0
  /\ dash' = [dash EXCEPT !.rnd[s].pc = "user", !.readers = @ \ {s}]

\* updateUser: ch <- SSEMessage, without the lock; on a channel that
\* removeSSEClient has closed the send panics.
UpdateUserSend(s) ==
  /\ dash.rnd[s].pc = "user"
  /\ dash.hnd[s] \in {"loop", "removed"}
  /\ dash' = [dash EXCEPT !.rnd[s].pc = IF dash.hnd[s] = "loop" THEN "done" ELSE "panicked"]

\* The client disconnects (r.Context().Done(), or an sse write fails): the
\* handler leaves the loop and its deferred removeSSEClient calls Lock.
ClientDisconnect(s) ==
  /\ dash.hnd[s] = "loop"
  /\ dash' = [dash EXCEPT !.hnd[s] = "removing"]

\* removeSSEClient once the write lock is granted: delete, close, Unlock.
removeSSEClient(s) ==
  /\ dash.hnd[s] = "removing"
  /\ dash.readers = {}
  /\ dash' = [dash EXCEPT !.hnd[s] = "removed", !.clients = @ \ {s}]

\* streamProxyUpdates receives a status event: RLock, range over the
\* clients. sends tells whether the event makes the loop send to each client
\* (always for Stopped; for the others when GetProxy finds the proxy).
StreamUpdateBegin(sends) ==
  /\ dash.stream.pc = "idle"
  /\ dash.events < MaxStatusEvents
  /\ ~WriterPending
  /\ dash' = [dash EXCEPT !.stream = [pc |-> "loop", todo |-> dash.clients, sends |-> sends],
                          !.readers = @ \cup {"stream"},
                          !.events = @ + 1]

\* One round of the range: the blocking send on the client's channel, or
\* renderProxy returning without a send.
StreamUpdateSend(s) ==
  /\ dash.stream.pc = "loop"
  /\ s \in dash.stream.todo
  /\ dash.stream.sends => dash.hnd[s] = "loop"
  /\ dash' = [dash EXCEPT !.stream.todo = @ \ {s},
                          !.served = IF dash.stream.sends THEN @ \cup {s} ELSE @]

\* The range is over: RUnlock, back to the receive on the status channel.
StreamUpdateEnd ==
  /\ dash.stream.pc = "loop"
  /\ dash.stream.todo = {}
  /\ dash' = [dash EXCEPT !.stream.pc = "idle", !.readers = @ \ {"stream"}]

\* NewDashboard: no client, streamProxyUpdates waiting for a status event.
InitDash ==
  /\ MgrIdle
  /\ ProxyIdle
  /\ LockIdle
  /\ ObsIdle
  /\ BusIdle
  /\ ResIdle
  /\ ListIdle
  /\ cfgTargets = [i \in Ids |-> NoPorts]
  /\ WatchIdle("list", {})
  /\ stopAll = [pc |-> "idle", snap |-> {}]
  /\ ep = EndpointNew
  /\ req = [pc |-> "none"]
  /\ closing = [th \in Threads |-> [todo |-> {}, cur |-> 0, log |-> <<>>]]
  /\ multi = [phase |-> "none"]
  /\ dash = [pc |-> "run", clients |-> {}, readers |-> {},
             hnd |-> [s \in Sessions |-> "none"],
             rnd |-> [s \in Sessions |-> [pc |-> "none", left |-> 0]],
             stream |-> [pc |-> "idle", todo |-> {}, sends |-> FALSE],
             served |-> {}, events |-> 0]

NextDash ==
  \/ \E s \in Sessions : StreamHandlerCall(s) /\ UNCHANGED <<mgrVars, bus, proxyVars, lockVars, obsVars, busVars, resVars, listVars, cfgTargets, watchVars, stopAll, ep, req, closing, multi>>
  \/ \E s \in Sessions : StreamHandlerRegister(s) /\ UNCHANGED <<mgrVars, bus, proxyVars, lockVars, obsVars, busVars, resVars, listVars, cfgTargets, watchVars, stopAll, ep, req, closing, multi>>
  \/ \E s \in Sessions : RenderListRLock(s) /\ UNCHANGED <<mgrVars, bus, proxyVars, lockVars, obsVars, busVars, resVars, listVars, cfgTargets, watchVars, stopAll, ep, req, closing, multi>>
  \/ \E s \in Sessions : RenderListSend(s) /\ UNCHANGED <<mgrVars, bus, proxyVars, lockVars, obsVars, busVars, resVars, listVars, cfgTargets, watchVars, stopAll, ep, req, closing, multi>>
  \/ \E s \in Sessions : RenderListRUnlock(s) /\ UNCHANGED <<mgrVars, bus, proxyVars, lockVars, obsVars, busVars, resVars, listVars, cfgTargets, watchVars, stopAll, ep, req, closing, multi>>
  \/ \E s \in Sessions : UpdateUserSend(s) /\ UNCHANGED <<mgrVars, bus, proxyVars, lockVars, obsVars, busVars, resVars, listVars, cfgTargets, watchVars, stopAll, ep, req, closing, multi>>
  \/ \E s \in Sessions : ClientDisconnect(s) /\ UNCHANGED <<mgrVars, bus, proxyVars, lockVars, obsVars, busVars, resVars, listVars, cfgTargets, watchVars, stopAll, ep, req, closing, multi>>
  \/ \E s \in Sessions : removeSSEClient(s) /\ UNCHANGED <<mgrVars, bus, proxyVars, lockVars, obsVars, busVars, resVars, listVars, cfgTargets, watchVars, stopAll, ep, req, closing, multi>>
  \/ \E sends \in BOOLEAN : StreamUpdateBegin(sends) /\ UNCHANGED <<mgrVars, bus, proxyVars, lockVars, obsVars, busVars, resVars, listVars, cfgTargets, watchVars, stopAll, ep, req, closing, multi>>
  \/ \E s \in Sessions : StreamUpdateSend(s) /\ UNCHANGED <<mgrVars, bus, proxyVars, lockVars, obsVars, busVars, resVars, listVars, cfgTargets, watchVars, stopAll, ep, req, closing, multi>>
  \/ StreamUpdateEnd /\ UNCHANGED <<mgrVars, bus, proxyVars, lockVars, obsVars, busVars, resVars, listVars, cfgTargets, watchVars, stopAll, ep, req, closing, multi>>

\* Every goroutine that can take a step is scheduled.
SpecDash == InitDash /\ [][NextDash]_vars /\ WF_vars(NextDash)

(***************************************************************************)
(* The proxy manager with one target provider.                             *)
(***************************************************************************)
Init ==
  /\ cfgHost \in {f \in [Ids -> Hosts] : f["a"] = "h1"}
  /\ cfgProvider \in {f \in [Ids -> {"", "missing"}] : f["a"] = ""}
  /\ present \in SUBSET Ids
  /\ toStart = present
  /\ book = {}
  /\ tasks = <<>>
  /\ proxies = <<>>
  /\ reg = [h \in Hosts |-> 0]
  /\ bus = <<>>
  /\ ProxyIdle
  /\ LockIdle
  /\ ObsIdle
  /\ BusIdle
  /\ ExtIdle

Next ==
  \/ \E id \in Ids : EmitStartup(id) /\ UNCHANGED <<proxyVars, lockVars, obsVars, busVars, extVars>>
  \/ \E id \in Ids : EmitStart(id) /\ UNCHANGED <<proxyVars, lockVars, obsVars, busVars, extVars>>
  \/ \E id \in Ids : EmitStop(id) /\ UNCHANGED <<proxyVars, lockVars, obsVars, busVars, extVars>>
  \/ \E id \in Ids : EmitRestart(id) /\ UNCHANGED <<proxyVars, lockVars, obsVars, busVars, extVars>>
  \/ \E t \in 1..Len(tasks) : StopLookup(t) /\ UNCHANGED <<proxyVars, lockVars, obsVars, busVars, extVars>>
  \/ \E t \in 1..Len(tasks) : RemoveLookup(t) /\ UNCHANGED <<proxyVars, lockVars, obsVars, busVars, extVars>>
  \/ \E t \in 1..Len(tasks) : CloseDone(t) /\ UNCHANGED <<proxyVars, lockVars, obsVars, busVars, extVars>>
  \/ \E t \in 1..Len(tasks) : RemoveDelete(t) /\ UNCHANGED <<proxyVars, lockVars, obsVars, busVars, extVars>>
  \/ \E t \in 1..Len(tasks) : StartAddTarget(t) /\ UNCHANGED <<proxyVars, lockVars, obsVars, busVars, extVars>>
  \/ \E t \in 1..Len(tasks) : StartRegister(t) /\ UNCHANGED <<proxyVars, lockVars, obsVars, busVars, extVars>>
  \/ \E t \in 1..Len(tasks) : StartBroadcast(t) /\ UNCHANGED <<proxyVars, lockVars, obsVars, busVars, extVars>>

Spec == Init /\ [][Next]_vars

(***************************************************************************)
(* StopAllProxies: under the read lock one goroutine per key of pm.Proxies *)
(* is started, each running removeProxy(key); then wg.Wait(). The event    *)
(* handlers keep running beside it.                                        *)
(***************************************************************************)
StopAllProxies ==
  /\ stopAll.pc = "idle"
  /\ LET live == {h \in Hosts : reg[h] # 0}
         order == CHOOSE s \in [1..Cardinality(live) -> live] :
                    \A i, j \in 1..Cardinality(live) : i # j => s[i] # s[j]
         remover(h) == [NewTask(proxies[reg[h]].tid, "StopAllProxies", FALSE)
                          EXCEPT !.pc = "remove", !.found = reg[h]]
     IN /\ tasks' = tasks \o [i \in 1..Cardinality(live) |-> remover(order[i])]
        /\ stopAll' = [pc |-> "waiting", snap |-> {reg[h] : h \in live}]
  /\ UNCHANGED <<cfgHost, cfgProvider, present, toStart, book, proxies, reg, bus>>

\* wg.Wait() returns: every removeProxy goroutine has called wg.Done().
StopAllReturn ==
  /\ stopAll.pc = "waiting"
  /\ \A t \in 1..Len(tasks) : tasks[t].action = "StopAllProxies" => tasks[t].pc = "done"
  /\ stopAll' = [stopAll EXCEPT !.pc = "returned"]
  /\ UNCHANGED mgrVars

\* Two targets with different hostnames and the default proxy provider, after
\* their startup Start events have been handled and the handlers have exited:
\* both proxies are registered and started.
InitStopAll ==
  /\ cfgHost = [i \in Ids |-> IF i = "a" THEN "h1" ELSE "h2"]
  /\ cfgProvider = [i \in Ids |-> ""]
  /\ present = Ids
  /\ toStart = {}
  /\ book = Ids
  /\ tasks = <<>>
  /\ proxies = <<[tid |-> "a", host |-> "h1", status |-> "Initializing",
                  started |-> TRUE, closed |-> FALSE],
                 [tid |-> "b", host |-> "h2", status |-> "Initializing",
                  started |-> TRUE, closed |-> FALSE]>>
  /\ reg = [h \in Hosts |-> IF h = "h1" THEN 1 ELSE 2]
  /\ bus = <<[ID |-> "h1", Status |-> "Initializing"],
             [ID |-> "h2", Status |-> "Initializing"]>>
  /\ ProxyIdle
  /\ LockIdle
  /\ ObsIdle
  /\ BusIdle
  /\ ExtIdle

\* The events handled beside the shutdown: a Stop or a Restart of one of the
\* two targets (both are present, so the provider has no Start to emit).
ShutdownEvents ==
  Cardinality({t \in 1..Len(tasks) : tasks[t].action # "StopAllProxies"})

NextStopAll ==
  \/ \E id \in Ids : ShutdownEvents < MaxShutdownEvents /\ EmitStop(id) /\ UNCHANGED <<proxyVars, lockVars, obsVars, busVars, extVars>>
  \/ \E id \in Ids : ShutdownEvents < MaxShutdownEvents /\ EmitRestart(id) /\ UNCHANGED <<proxyVars, lockVars, obsVars, busVars, extVars>>
  \/ \E t \in 1..Len(tasks) : StopLookup(t) /\ UNCHANGED <<proxyVars, lockVars, obsVars, busVars, extVars>>
  \/ \E t \in 1..Len(tasks) : RemoveLookup(t) /\ UNCHANGED <<proxyVars, lockVars, obsVars, busVars, extVars>>
  \/ \E t \in 1..Len(tasks) : CloseDone(t) /\ UNCHANGED <<proxyVars, lockVars, obsVars, busVars, extVars>>
  \/ \E t \in 1..Len(tasks) : RemoveDelete(t) /\ UNCHANGED <<proxyVars, lockVars, obsVars, busVars, extVars>>
  \/ \E t \in 1..Len(tasks) : StartAddTarget(t) /\ UNCHANGED <<proxyVars, lockVars, obsVars, busVars, extVars>>
  \/ \E t \in 1..Len(tasks) : StartRegister(t) /\ UNCHANGED <<proxyVars, lockVars, obsVars, busVars, extVars>>
  \/ \E t \in 1..Len(tasks) : StartBroadcast(t) /\ UNCHANGED <<proxyVars, lockVars, obsVars, busVars, extVars>>
  \/ StopAllProxies /\ UNCHANGED <<proxyVars, lockVars, obsVars, busVars, resVars, listVars, cfgTargets, watchVars, ep, req, closing, multi, dash>>
  \/ StopAllReturn /\ UNCHANGED <<bus, proxyVars, lockVars, obsVars, busVars, resVars, listVars, cfgTargets, watchVars, ep, req, closing, multi, dash>>

SpecStopAll == InitStopAll /\ [][NextStopAll]_vars

(***************************************************************************)
(* Restart(X) against Stop(X) followed by Start(X), from the same state.   *)
(***************************************************************************)
AllHandled == \A t \in 1..Len(tasks) : tasks[t].pc = "done"

\* The handler goroutines of handled events have exited.
ObsReap ==
  /\ obsPhase = "setup"
  /\ toStart = {} /\ AllHandled /\ tasks # <<>>
  /\ tasks' = <<>>
  /\ UNCHANGED <<cfgHost, cfgProvider, present, toStart, book, proxies, reg, bus,
                 proxyVars, lockVars, obsVars, busVars, extVars>>

\* The provider emits Restart(x); the state it is emitted in is kept.
ObsRestart(x) ==
  /\ obsPhase = "setup"
  /\ toStart = {} /\ tasks = <<>>
  /\ EmitRestart(x)
  /\ obsPhase' = "restart"
  /\ obsX' = x
  /\ obsSaved' = [present |-> present, book |-> book, proxies |-> proxies,
                  reg |-> reg, bus |-> bus]
  /\ UNCHANGED <<obsBus, obsAdded, proxyVars, lockVars, busVars, extVars>>

\* Restart(x) is handled: keep the bus and go back to the kept state.
ObsRewind ==
  /\ obsPhase = "restart"
  /\ AllHandled
  /\ obsBus' = bus
  /\ obsAdded' = tasks[1].added
  /\ present' = obsSaved.present
  /\ book' = obsSaved.book
  /\ proxies' = obsSaved.proxies
  /\ reg' = obsSaved.reg
  /\ bus' = obsSaved.bus
  /\ tasks' = <<>>
  /\ obsPhase' = "rewound"
  /\ UNCHANGED <<cfgHost, cfgProvider, toStart, obsX, obsSaved, proxyVars, lockVars, busVars, extVars>>

\* The provider emits Stop(x) ...
ObsStop ==
  /\ obsPhase = "rewound"
  /\ EmitStop(obsX)
  /\ obsPhase' = "stop"
  /\ UNCHANGED <<obsX, obsSaved, obsBus, obsAdded, proxyVars, lockVars, busVars, extVars>>

\* ... followed by Start(x).
ObsStart ==
  /\ obsPhase = "stop"
  /\ EmitStart(obsX)
  /\ obsPhase' = "both"
  /\ UNCHANGED <<obsX, obsSaved, obsBus, obsAdded, proxyVars, lockVars, busVars, extVars>>

NextObs ==
  \/ \E id \in Ids : obsPhase = "setup" /\ EmitStartup(id) /\ UNCHANGED <<proxyVars, lockVars, obsVars, busVars, extVars>>
  \/ ObsReap
  \/ \E x \in Ids : ObsRestart(x)
  \/ ObsRewind
  \/ ObsStop
  \/ ObsStart
  \/ \E t \in 1..Len(tasks) : StopLookup(t) /\ UNCHANGED <<proxyVars, lockVars, obsVars, busVars, extVars>>
  \/ \E t \in 1..Len(tasks) : RemoveLookup(t) /\ UNCHANGED <<proxyVars, lockVars, obsVars, busVars, extVars>>
  \/ \E t \in 1..Len(tasks) : CloseDone(t) /\ UNCHANGED <<proxyVars, lockVars, obsVars, busVars, extVars>>
  \/ \E t \in 1..Len(tasks) : RemoveDelete(t) /\ UNCHANGED <<proxyVars, lockVars, obsVars, busVars, extVars>>
  \/ \E t \in 1..Len(tasks) : StartAddTarget(t) /\ UNCHANGED <<proxyVars, lockVars, obsVars, busVars, extVars>>
  \/ \E t \in 1..Len(tasks) : StartRegister(t) /\ UNCHANGED <<proxyVars, lockVars, obsVars, busVars, extVars>>
  \/ \E t \in 1..Len(tasks) : StartBroadcast(t) /\ UNCHANGED <<proxyVars, lockVars, obsVars, busVars, extVars>>

SpecObs == Init /\ [][NextObs]_vars

(***************************************************************************)
(* Properties of the proxy manager (checked under Spec).                   *)
(***************************************************************************)
TasksFor(id) == {t \in 1..Len(tasks) : tasks[t].id = id}

\* The registry holds a proxy under hostname h whose target id is i.
Registered(i, h) == reg[h] # 0 /\ proxies[reg[h]].tid = i

\* C1: events of one provider for one target id take effect in emission
\* order; in particular, when the last two events emitted for id X are a Start
\* and then a Stop and both have been handled, the registry holds no proxy
\* for X.
C1_StartThenStopLeavesNoProxy ==
  \A id \in Ids :
    \A t1, t2 \in TasksFor(id) :
      ( /\ t1 < t2
        /\ \A t \in TasksFor(id) : t <= t1 \/ t = t2
        /\ tasks[t1].action = ActionStartProxy
        /\ tasks[t2].action = ActionStopProxy
        /\ \A t \in TasksFor(id) : tasks[t].pc = "done" )
      => getProxyByTargetID(id) = {}

\* The provider has emitted its startup Starts and nothing else, and every one
\* of them has been handled.
StartupQuiesced ==
  /\ toStart = {}
  /\ AllHandled
  /\ \A t \in 1..Len(tasks) : tasks[t].startup
  /\ \A id \in present : TasksFor(id) # {}

C3_OnlyRestartReplaces ==
  [][\A h \in Hosts :
       (reg[h] # 0 /\ reg'[h] # 0 /\ reg'[h] # reg[h]) =>
         \E t \in 1..Len(tasks) :
           /\ tasks[t].action = ActionRestartProxy
           /\ tasks'[t] # tasks[t]]_vars

\* C5: when a task handling Restart(X) found a live proxy for X and registers
\* the new proxy, the previous proxy has status Stopped and is in the registry
\* no more.
C5_RestartClosesOldFirst ==
  [][\A t \in 1..Len(tasks) :
       ( /\ tasks[t].action = ActionRestartProxy
         /\ tasks[t].found # 0
         /\ tasks[t].pc = "new"
         /\ tasks'[t].pc = "init" )
       => /\ proxies[tasks[t].found].status = "Stopped"
          /\ \A h \in Hosts : reg[h] # tasks[t].found]_vars

\* C7: when a task finishes handling Stop(X) having found a registered proxy
\* with target id X, DeleteProxy(X) has been called, that proxy has status
\* Stopped and the registry has no entry under its hostname.
C7_StopClosesAndRemoves ==
  [][\A t \in 1..Len(tasks) :
       ( /\ tasks[t].action = ActionStopProxy
         /\ tasks[t].pc # "done"
         /\ tasks'[t].pc = "done"
         /\ tasks'[t].found # 0 )
       => /\ tasks'[t].delCalled
          /\ proxies'[tasks'[t].found].status = "Stopped"
          /\ reg'[proxies'[tasks'[t].found].host] = 0]_vars

(***************************************************************************)
(* Properties of one proxy (SpecProxy).                                    *)
(***************************************************************************)
BusStatuses == [i \in 1..Len(bus) |-> bus[i].Status]

Count(seq, v) == Cardinality({i \in 1..Len(seq) : seq[i] = v})

PublishPending == \E th \in Threads : thr[th].pc = "pub"

\* C4: after N >= 1 calls of Close made one after another have all returned,
\* the bus holds exactly one Stopping event and exactly one Stopped event of the
\* proxy, the Stopping one first.
C4_CloseIdempotent ==
  (closeCalls >= 1 /\ closeActive = 0 /\ ~closeOverlap) =>
    /\ Count(BusStatuses, "Stopping") = 1
    /\ Count(BusStatuses, "Stopped") = 1
    /\ \A i, j \in 1..Len(bus) :
         (bus[i].Status = "Stopping" /\ bus[j].Status = "Stopped") => i < j

\* C8: whenever the cached status is Stopped, no listener vended by the
\* endpoint is open and no port worker is serving.
C8_StoppedMeansClosed ==
  pStatus = "Stopped" =>
    \A k \in PortKeys : lst[k] # "open" /\ ~serving[k]

\* C10: once no setStatus call is between its store and its publish, the
\* statuses on the bus are, in order, the values the cached status took.
C10_PublishedInCacheOrder ==
  ~PublishPending => BusStatuses = statusLog

(***************************************************************************)
(* Properties of the manager's lock (SpecLock).                            *)
(***************************************************************************)
\* C9: every access to the registry map is made holding the manager's lock, in
\* write mode for a write, and no read of the map overlaps a write of it.
C9_RegistryAccessUnderLock ==
  /\ \A c \in Callers :
       /\ acc[c] = "read" => (c \in lockR \/ lockW = c)
       /\ acc[c] = "write" => lockW = c
  /\ \A c, d \in Callers :
       (c # d /\ acc[c] = "write") => acc[d] = "none"

(***************************************************************************)
(* Properties of the comparison (SpecObs).                                 *)
(***************************************************************************)
\* C6: once Stop(X) and Start(X) are both handled, the subscriber has seen the
\* very events it saw when Restart(X) was handled from the same state, the
\* provider's AddTarget having answered the same in both.
C6_RestartEqualsStopStart ==
  (obsPhase = "both" /\ AllHandled /\ tasks[2].added = obsAdded) => bus = obsBus

(***************************************************************************)
(* Properties of one proxy that only its own goroutines drive (SpecJoin).  *)
(***************************************************************************)
\* Position of a status in the order Initializing, Starting, Authenticating,
\* Running; 0 for the other statuses.
JoinRank(st) ==
  CASE st = "Initializing" -> 1
    [] st = "Starting" -> 2
    [] st = "Authenticating" -> 3
    [] st = "Running" -> 4
    [] OTHER -> 0

\* C11: the cached status never steps back in the order Initializing,
\* Starting, Authenticating, Running, and it leaves Running only for Stopping.
C11_NoStatusRegress ==
  [][/\ (JoinRank(pStatus) > 0 /\ JoinRank(pStatus') > 0)
          => JoinRank(pStatus') >= JoinRank(pStatus)
     /\ (pStatus = "Running" /\ pStatus' # "Running") => pStatus' = "Stopping"]_vars

(***************************************************************************)
(* Further properties of one proxy (SpecProxy).                            *)
(***************************************************************************)
\* Every port worker is shut down with its listener closed, and the endpoint
\* is closed.
AllClosed ==
  /\ epClosed
  /\ \A k \in pPorts : httpShutdown[k] /\ ~serving[k] /\ lst[k] # "open"

\* C12: once two or more calls of Close that overlapped have all returned, the
\* status is Stopped and every port worker and the endpoint are closed; and no
\* call of Close is ever stuck.
C12_ConcurrentCloseEndsStopped ==
  /\ (closeCalls >= 2 /\ closeOverlap /\ closeActive = 0) =>
       (pStatus = "Stopped" /\ AllClosed)
  /\ \A th \in Threads :
       thr[th].pc \in {"teardown", "closed"} =>
         (ENABLED Teardown(th) \/ ENABLED CloseReturn(th))

(***************************************************************************)
(* Properties of the status bus (SpecBus).                                 *)
(***************************************************************************)
\* C13: a publisher inside broadcastStatusEvents can always take its next
\* step, whatever the subscribers do; the select on a channel hands the event
\* to that channel's waiting consumer or drops it for that channel, and changes
\* nothing of any other channel.
C13_PublishNeverBlocks ==
  /\ [](\A p \in Publishers :
          pub[p].pc = "loop" =>
            /\ \A c \in pub[p].todo : ENABLED BroadcastSend(p, c)
            /\ pub[p].todo = {} => ENABLED BroadcastEnd(p))
  /\ [][\A p \in Publishers, c \in Sinks :
          (pub[p].pc = "loop" /\ c \in pub[p].todo /\ c \notin pub'[p].todo) =>
            /\ sinkGot'[c] = IF sinkRecv[c] THEN Append(sinkGot[c], pub[p].ev)
                               ELSE sinkGot[c]
            /\ \A d \in Sinks \ {c} : sinkGot'[d] = sinkGot[d] /\ sinkRecv'[d] = sinkRecv[d]
            /\ pub'[p].pc = "loop"]_vars

\* A publisher has dropped its event for one subscribed channel, whose consumer
\* was not waiting, and handed it to the other.
C13_Witness ==
  \E p \in Publishers : \E c, d \in Sinks :
    /\ pub[p].pc = "loop"
    /\ c \in pub[p].dropped
    /\ d \in subs \ pub[p].todo
    /\ d \notin pub[p].dropped
    /\ Len(sinkGot[d]) > 0 /\ sinkGot[d][Len(sinkGot[d])] = pub[p].ev

(***************************************************************************)
(* Properties of the provider resolution (SpecResolve).                    *)
(***************************************************************************)
\* C14: for a config of a known target provider, getProxyProvider returns the
\* config's provider name if set and registered, otherwise the target
\* provider's default if registered, otherwise the global default if
\* registered, and fails with ErrProxyProviderNotFound only when none of the
\* three is registered.
C14_ResolutionInPriorityOrder ==
  (resOut # "pending" /\ resIn.targetKnown) =>
    resOut = IF resIn.name # "" /\ resIn.name \in resIn.registered
               THEN resIn.name
             ELSE IF resIn.targetDefault \in resIn.registered
               THEN resIn.targetDefault
             ELSE IF resIn.globalDefault \in resIn.registered
               THEN resIn.globalDefault
             ELSE ErrProxyProviderNotFound

(***************************************************************************)
(* Properties of Proxy.start (SpecProxy).                                  *)
(***************************************************************************)
\* C15: a proxy with no ports never has its endpoint started and never has
\* the status Running; when its start() has returned, its status has been set
\* to Error.
C15_NoPortsMeansError ==
  pPorts = {} =>
    /\ ~epStarted
    /\ pStatus # "Running"
    /\ \A i \in 1..Len(statusLog) : statusLog[i] # "Running"
    /\ thr[TStart].pc \in {"begin", "set", "pub", "done"}
    /\ thr[TStart].pc = "done" => \E i \in 1..Len(statusLog) : statusLog[i] = "Error"

\* A proxy with no ports whose start() has returned and whose status is Error.
C15_Witness ==
  /\ pPorts = {}
  /\ thr[TStart].pc = "done"
  /\ pStatus = "Error"
  /\ ~epStarted

\* The endpoint's Start has returned an error: the proxy has ports, start()
\* is past the call, and the endpoint is not started.
EndpointStartFailed ==
  /\ pPorts # {}
  /\ ~epStarted
  /\ thr[TStart].pc \notin {"begin", "epStart"}

\* C16: after an error of the endpoint's Start no listener is requested and no
\* port worker is spawned or serves; start() is inside proxy.Close() or has
\* returned; when it has returned the proxy is closed, and when no call of
\* Close is running any more the status is Stopped.
C16_EndpointErrorClosesProxy ==
  EndpointStartFailed =>
    /\ pending = {}
    /\ \A k \in PortKeys : lst[k] = "none" /\ ~serving[k] /\ thr[<<"port", k>>].pc = "off"
    /\ thr[TStart].pc \in {"set", "pub", "teardown", "closed", "done"}
    /\ thr[TStart].pc = "done" => (ctxCancelled /\ AllClosed)
    /\ (thr[TStart].pc = "done" /\ closeActive = 0) => pStatus = "Stopped"

\* The endpoint's Start failed, start() has returned and the status is Stopped.
C16_Witness ==
  /\ EndpointStartFailed
  /\ thr[TStart].pc = "done"
  /\ closeActive = 0
  /\ pStatus = "Stopped"

\* C17: a step of start() in which GetListener fails for port key k leaves
\* that port without listener and worker, does not touch the status and no
\* other port, and start() goes on with the remaining keys (it returns only
\* when none is left); every key still to be requested can be requested.
C17_ListenerFailureSkipsPort ==
  /\ [](thr[TStart].pc = "ports" =>
          /\ pending # {}
          /\ \A j \in pending : ENABLED StartPort(j))
  /\ [](\A k \in PortKeys : lst[k] = "none" => thr[<<"port", k>>].pc = "off")
  /\ [][\A k \in PortKeys :
          (k \in pending /\ k \notin pending' /\ lst'[k] = "none") =>
            /\ pStatus' = pStatus /\ statusLog' = statusLog /\ bus' = bus
            /\ thr'[<<"port", k>>] = thr[<<"port", k>>]
            /\ \A j \in PortKeys \ {k} : lst'[j] = lst[j] /\ serving'[j] = serving[j]
            /\ pending' = pending \ {k}
            /\ thr'[TStart] = At(IF pending' = {} THEN "done" ELSE "ports")]_vars

\* start() has returned: the listener of port 1 failed and port 1 is skipped,
\* port 2 got its listener and serves.
C17_Witness ==
  /\ pPorts = PortKeys
  /\ epStarted
  /\ thr[TStart].pc = "done"
  /\ lst[1] = "none" /\ thr[<<"port", 1>>].pc = "off"
  /\ lst[2] = "open" /\ serving[2]

(***************************************************************************)
(* Properties of eventStart (Spec).                                        *)
(***************************************************************************)
\* C18: the step in which AddTarget fails for an event constructs no proxy,
\* leaves the registry unchanged and publishes nothing; a Restart runs
\* eventStart after eventStop whatever eventStop found; and a Restart for an id
\* whose earlier Start failed in AddTarget, whose own AddTarget succeeded, has
\* constructed and registered a proxy when it is handled.
C18_AddTargetFailureDropsEvent ==
  /\ [][\A t \in 1..Len(tasks) :
          (tasks[t].pc = "start" /\ tasks'[t].pc = "done") =>
            (proxies' = proxies /\ reg' = reg /\ bus' = bus /\ tasks'[t].np = 0)]_vars
  /\ [][\A t \in 1..Len(tasks) :
          (tasks[t].action = ActionRestartProxy /\ tasks[t].pc # "done"
             /\ tasks'[t].pc = "done") =>
            tasks[t].pc \in {"start", "new", "init"}]_vars
  /\ [](\A s, t \in 1..Len(tasks) :
          (/\ s < t
           /\ tasks[s].id = tasks[t].id
           /\ tasks[s].action = ActionStartProxy
           /\ tasks[s].pc = "done" /\ ~tasks[s].added
           /\ tasks[t].action = ActionRestartProxy
           /\ tasks[t].pc = "done" /\ tasks[t].added) =>
            (tasks[t].np # 0 /\ proxies[tasks[t].np].tid = tasks[t].id))

(***************************************************************************)
(* Properties of the list provider (SpecList).                             *)
(***************************************************************************)
\* C19: a reload, with last-known map O and newly loaded map N, emits for each
\* name exactly: one Stop if the name is in O and not in N, one Start if it is
\* in N and not in O, one Restart if it is in both with different entries, and
\* nothing if its entries are equal or it is in neither; N is the file's
\* content when the file loads without error.
C19_ReloadEmitsDiff ==
  [][listReloads' # listReloads =>
       /\ ~listBad => configProxies' = listFile
       /\ \A n \in ListNames :
            listOut'[n] =
              IF configProxies[n] # 0 /\ configProxies'[n] = 0 THEN <<ActionStopProxy>>
              ELSE IF configProxies[n] = 0 /\ configProxies'[n] # 0 THEN <<ActionStartProxy>>
              ELSE IF configProxies[n] # 0 /\ configProxies[n] # configProxies'[n]
                THEN <<ActionRestartProxy>>
              ELSE <<>>]_vars

\* A reload has emitted a Stop, a Start and a Restart, and nothing for a name
\* whose entry stayed the same.
C19_Witness ==
  /\ listReloads > 0
  /\ \E n \in ListNames : listOut[n] = <<ActionStopProxy>>
  /\ \E n \in ListNames : listOut[n] = <<ActionStartProxy>>
  /\ \E n \in ListNames : listOut[n] = <<ActionRestartProxy>>

\* C20: handling the event of a write to the list file, of a create of it, or
\* of a retarget of the symlink it is reached through reloads the file and
\* emits the events of the diff between the last-known map and the file.
C20_WriteCreateRetargetReload ==
  [][(fsEvent # NoEvent /\ fsEvent' = NoEvent
        /\ fsEvent.cause \in {"write", "create", "retarget"}) =>
       /\ listReloads' = listReloads + 1
       /\ ~listBad => (configProxies' = listFile
                        /\ listOut' = diffEvents(configProxies, listFile))]_vars

(***************************************************************************)
(* Properties of list entries (SpecEntry).                                 *)
(***************************************************************************)
\* C21: for a list entry that has ports and whose target URLs are all invalid
\* (getPorts keeps none of its ports) no proxy is constructed, nothing is
\* registered under its name, and no status event is published for it.
C21_InvalidEntryCreatesNoProxy ==
  \A i \in Ids :
    (DOMAIN cfgTargets[i] # {} /\ getPorts(cfgTargets[i]) = {}) =>
      /\ \A p \in 1..Len(proxies) : proxies[p].tid # i
      /\ reg[cfgHost[i]] = 0
      /\ \A e \in 1..Len(bus) : bus[e].ID # cfgHost[i]

(***************************************************************************)
(* Properties of the target providers' goroutines (SpecWatch).             *)
(***************************************************************************)
\* C22: once WatchEvents is called, and unless the manager's loop stops
\* receiving, a Start event is eventually received for every target present
\* at startup.
C22_StartupStartsEveryTarget ==
  <>(\/ mgrLoop = "returned"
     \/ panicked
     \/ /\ proc["starter"].pc = "done"
        /\ \A id \in atStartup :
             \E e \in 1..Len(got) : got[e].id = id /\ got[e].action = ActionStartProxy)

\* C23: once the docker watcher has taken the event stream's error and sent it
\* on errChan, it has terminated, exactly one error has been received, and
\* no goroutine has sent on a closed channel.
C23_StreamErrorEndsWatcher ==
  (wKind = "docker" /\ dockerStream \in {"silent", "closed"}
     /\ proc["watcher"].out = NoMsg) =>
    /\ proc["watcher"].pc = "done"
    /\ gotErrs = 1
    /\ ~panicked

\* C24: when provider.Close() has returned, the provider's watcher has
\* terminated and a Stop event has been received for every id that was
\* active when Close was called.
C24_CloseStopsActiveTargets ==
  proc["closer"].pc = "done" =>
    /\ proc["watcher"].pc # "select"
    /\ \A id \in atClose :
         \E e \in 1..Len(got) : got[e].id = id /\ got[e].action = ActionStopProxy


\* C25: when StopAllProxies, called with two or more registered proxies, has
\* returned, every proxy that was registered at the call has status Stopped
\* and the registry is empty.
C25_StopAllStopsEverything ==
  (stopAll.pc = "returned" /\ Cardinality(stopAll.snap) >= 2) =>
    /\ \A p \in stopAll.snap : proxies[p].status = "Stopped"
    /\ \A h \in Hosts : reg[h] = 0


C27_RunningPrefetchesCertificate ==
  (ep.status = "Running" /\ ep.pc = "next") => ep.certs >= 1


C29_WorkerErrorSetsError ==
  /\ [](\A w \in Workers :
          /\ portFailed[w[2]] =>
               \/ thr[w].pc = "set"
               \/ \E i \in 1..Len(statusLog) : statusLog[i] = "Error"
          /\ thr[w].pc \in {"set", "pub"} => portFailed[w[2]] /\ thr[w].arg = "Error")
  /\ [][\A w \in Workers :
          /\ (thr[w].pc = "set" /\ thr'[w].pc # "set") => pStatus' = "Error"
          /\ (thr[w] # thr'[w] /\ ~portFailed'[w[2]]) => pStatus' = pStatus]_vars

C29_Witness ==
  \E w \in Workers :
    /\ portFailed[w[2]]
    /\ thr[w].pc = "done"
    /\ pStatus = "Error"
    /\ \E v \in Workers : v # w /\ thr[v].pc = "done" /\ ~portFailed[v[2]] /\ httpShutdown[v[2]]


\* C30: the steps one Close call has done are, in this order: setStatus(Stopping),
\* the context cancelled, then for every port of the proxy its HTTP server
\* shut down followed at once by its listener closed, then the endpoint
\* closed, then setStatus(Stopped); a call that has returned has done them all.
C30_CloseStepsInOrder ==
  \A th \in Threads :
    LET L == closing[th].log
        n == Cardinality(pPorts)
    IN /\ Len(L) <= 4 + 2 * n
       /\ \A i \in 1..Len(L) :
            /\ i = 1 => L[i].step = "Stopping"
            /\ i = 2 => L[i].step = "cancel"
            /\ (3 <= i /\ i <= 2 + 2 * n /\ i % 2 = 1) =>
                 /\ L[i].step = "shutdown"
                 /\ L[i].port \in pPorts
                 /\ \A j \in 1..(i - 1) : L[j].port # L[i].port
            /\ (3 <= i /\ i <= 2 + 2 * n /\ i % 2 = 0) =>
                 /\ L[i].step = "listener"
                 /\ L[i].port = L[i - 1].port
            /\ i = 3 + 2 * n => L[i].step = "endpoint"
            /\ i = 4 + 2 * n => L[i].step = "Stopped"
       /\ (L # <<>> /\ thr[th].pc \in {"closed", "done"}) => Len(L) = 4 + 2 * n

C30_Witness ==
  \E c \in Closers :
    /\ thr[c].pc = "done"
    /\ pPorts = PortKeys
    /\ Len(closing[c].log) = 8
    /\ closing[c].log[3].port = 2
    /\ closing[c].log[8].step = "Stopped"


\* C31: a proxy is registered before Initializing is published for it and
\* Initializing is published before it is started; for a hostname that only
\* one proxy was ever created for, the first status event on the bus is
\* Initializing.
C31_InitializingFirst ==
  /\ \A t \in 1..Len(tasks) :
       tasks[t].pc = "init" => reg[proxies[tasks[t].np].host] # 0
  /\ \A p \in 1..Len(proxies) :
       proxies[p].started =>
         \E i \in 1..Len(bus) : bus[i].ID = proxies[p].host /\ bus[i].Status = "Initializing"
  /\ \A h \in Hosts :
       Cardinality({p \in 1..Len(proxies) : proxies[p].host = h}) = 1 =>
         \A i \in 1..Len(bus) :
           (bus[i].ID = h /\ \A j \in 1..(i - 1) : bus[j].ID # h)
             => bus[i].Status = "Initializing"


\* C32: once the status of a proxy has been Error, its later values are only
\* Error, Stopping and Stopped; no event of the endpoint moves it to Starting,
\* Authenticating or Running.
C32_ErrorOnlyToStopping ==
  [][(\E i \in 1..Len(statusLog) : statusLog[i] = "Error")
       => pStatus' \in {"Error", "Stopping", "Stopped"}]_vars

\* C35: once the status of a proxy is Stopped it does not change, and the only
\* status event still published for the proxy is Stopped itself.
C35_StoppedIsFinal ==
  [][pStatus = "Stopped" =>
       /\ pStatus' = "Stopped"
       /\ bus' = bus \/ bus'[Len(bus')].Status = "Stopped"]_vars


\* C33: a Stop event emitted by a target provider only closes and removes a
\* proxy whose config that provider produced.
C33_StopClosesOwnProxyOnly ==
  multi.phase = "watching" =>
    (multi.last.closed # NoProvider => multi.last.closed = multi.last.by)


\* C34: whenever no target event is being handled, a target id is in the
\* provider's bookkeeping iff the registry holds a proxy with that target id.
C34_BookkeepingMatchesRegistry ==
  (\A t \in 1..Len(tasks) : tasks[t].pc = "done") =>
    \A id \in Ids :
      id \in book <=> \E h \in Hosts : reg[h] # 0 /\ proxies[reg[h]].tid = id

\* C36: every proxy that was started and has not been closed is registered
\* under its hostname.
C36_StartedProxyIsRegistered ==
  \A p \in 1..Len(proxies) :
    (proxies[p].started /\ ~proxies[p].closed) => reg[proxies[p].host] = p

\* C40: once the watch workers run, every target provider that was created
\* has its own entry in pm.TargetProviders and its own watch worker.
C40_EveryProviderRegisteredAndWatched ==
  multi.phase = "watching" =>
    \A q \in multi.created : multi.tp[q[2]] = q /\ q \in multi.workers


\* C37: no provider goroutine sends on the events channel or the errors
\* channel after the manager's watch worker has closed them.
C37_NoSendAfterWorkerClosed ==
  mgrLoop = "returned" => ~panicked


(***************************************************************************)
(* Unsubscribing from the status bus (SpecBus).                            *)
(***************************************************************************)
\* C38: after UnsubscribeStatusEvents has closed a subscriber's channel, no
\* broadcast sends on it: no broadcast loop still has a closed channel ahead.
C38_NoBroadcastOnClosedChannel ==
  \A p \in Publishers :
    pub[p].pc = "loop" => \A c \in pub[p].todo : sink[c] # "closed"

\* A broadcast ranges over the subscribers after a channel that received an
\* event was unsubscribed and closed.
C38_Witness ==
  \E p \in Publishers, c \in Sinks :
    /\ sink[c] = "closed"
    /\ Len(sinkGot[c]) > 0
    /\ pub[p].pc = "loop"
    /\ pub[p].todo # {}


(***************************************************************************)
(* The dashboard's stream clients (SpecDash).                              *)
(***************************************************************************)
\* C39: when a stream client disconnects while a status update is being
\* streamed (and no renderList holds the read lock), its removal eventually
\* completes: the loop's sends under the read lock never block it for ever.
C39_RemovalCompletes ==
  \A s \in Sessions :
    (/\ dash.hnd[s] = "removing"
     /\ dash.stream.pc = "loop"
     /\ \A c \in Sessions : dash.rnd[c].pc # "locked")
      ~> (dash.hnd[s] = "removed")

====
